---- MODULE Spec2Model ----
(***************************************************************************)
(* Custom Asio async streams: a service implementation object (ProducerImpl*)
(* / ConsumerImpl / ModernIOServiceImpl) pinned to a strand, an owning     *)
(* wrapper (Producer / Consumer / ModernIOService) that tears it down on   *)
(* the strand, and stream handles / clients that reach it through a        *)
(* weak_ptr and report completions on the caller's executor.               *)
(*                                                                         *)
(* One behaviour follows one of the three services (variable sys).  A step *)
(* of the model is one uninterrupted piece of code on one thread: the body *)
(* of an initiating function up to its posts, its return, the start and    *)
(* the end of a task on the service's strand, a task of the caller's       *)
(* executor, a timer expiry, the wrapper's destructor.                     *)
(***************************************************************************)
EXTENDS Naturals, Integers, Sequences, FiniteSets, TLC

\* ---------------------------------------------------------------- bounds
\* Number of operations a behaviour initiates.
MaxCalls == 2
\* Largest destination / source length (bytes) an operation is given.
MaxBuf == 1
\* Longest source buffer handed to a write.
MaxSrc == 2
\* Threads backing the service's executor (the strand sits on top of them).
ServiceThreads == 2

\* ModernIOService wrapper objects a behaviour may construct.
MaxWrappers == 3
\* ModernIOServiceImpl instances those wrappers may create.
MaxImpls == 2
\* Threads that call init() on one service instance, and calls per thread.
MaxInitThreads == 2

MaxInitCalls == 2
\* The transfer loops on their own: bytes the source holds at most, and the
\* largest destination handed to a read.
MaxData == 4

MaxDest == 10
\* Calls of the functions of AsyncFunctions.h in flight, and their
\* inputParam.
MaxFnCalls == 2

MaxParam == 2
\* Calls of AsyncService's functions in flight.
MaxSvcCalls == 2

\* ------------------------------------------------------ program constants
\* The loop lengths and chunk sizes are scaled down (bounds of the model);
\* the source's values are 7, 8, 4 and 5.
\* ModernIOServiceImpl::MAX_OPS, iterations of the main loop.
MAX_OPS == 2
\* gen_string(8, gen): bytes appended to buffer_out per iteration.
GEN_LEN == 2
\* substr(0, 4): bytes taken from buffer_in per iteration.
CONSUME_LEN == 1
\* ProducerImpl::MAX_MODS, modifications of producedData.
MAX_MODS == 2
\* std::string(2048, 'a'): size of producedData.
PRODUCED_SIZE == 2048

Systems == {"producer", "consumer", "modern"}
Calls == 1..MaxCalls

VARIABLES
  sys,          \* which service this behaviour follows
  onExec,       \* the user's code runs on the completion executor itself
  aborted,      \* the process has terminated abnormally
  wrapper,      \* "alive" / "destroyed": the owning wrapper object
  refs,         \* holders of a shared_ptr to the impl (empty: destroyed)
  destroyedOn,  \* where the impl's destructor ran ("none" while alive)
  strandQ,      \* tasks waiting on the impl's strand, FIFO
  inSection,    \* strand tasks being executed by a service thread
  callerQ,      \* closures waiting on the caller's executor, FIFO
  timer,        \* the impl's steady_timer has a wait outstanding
  loopOps,      \* ops counter of the background loop
  loopThrew,    \* an exception left the background loop
  consuming,    \* ConsumerImpl::consuming
  buffer_in,    \* ModernIOServiceImpl::buffer_in / ConsumerImpl::consumedData
  buffer_out,   \* ModernIOServiceImpl::buffer_out
  produced,     \* number of bytes the main loop has generated so far
  head,         \* MyAsyncReadStream::head
  end,          \* MyAsyncReadStream::end
  ops,          \* the operations, by call number
  handle,       \* "alive" / "destroyed": the stream handle object
  allowEarlyExit, \* ProducerImpl runs veryExpensiveOperationAllowEarlyExit
  appRun,       \* main's appIO.run(): "running" / "returned"
  prodRun,      \* the service thread's prodIO.run(): "running" / "returned"
  prodWork,     \* main's work guard on the service context is held
  impl,         \* ModernIOService::impl of each wrapper object (0: null)
  life,         \* each wrapper object: "none" / "alive" / "destroyed"
  implRefs,     \* holders of a shared_ptr to each ModernIOServiceImpl
  implQ,        \* teardown tasks waiting on each impl's strand
  teardowns,    \* teardown tasks submitted so far for each impl
  dropped,      \* a wrapper released its reference to the impl in place
  implGone,     \* where each impl's destructor ran ("none" while alive)
  variant,      \* "basic" (coro_basic_io_object) / "advcd": whose init()
  initPc,       \* each thread calling init(): "out" / "in" (inside its body)
  initCalls,    \* calls of init() each thread has returned from
  init_once,    \* ModernIOService::init_once: "idle" / "active" / "done"
  mains,        \* each main() coroutine spawned by init(): its state
  mainOps,      \* ops of each main() coroutine
  mainQ,        \* the strand's queue: main() coroutines (0: the init lambda)
  timerWaiter,  \* the main() whose timer.async_wait is pending (0: none)
  xStream,      \* transfer loop under test: "none" / "read" / "cread"
  xData,        \* its source: producedData / buffer_out
  xHead,        \* MyAsyncReadStream::head
  xEnd,         \* MyAsyncReadStream::end
  xStart,       \* the start the MyAsyncReadStream was constructed with
  xTotal,       \* bytes its reads have delivered so far
  xRes,         \* the last run of the loop: its inputs and what it produced
  fn,           \* calls of the functions of AsyncFunctions.h
  poolQ,        \* localPool's queue: coroutines to start
  awaitQ,       \* the awaiting coroutine's executor: completions to deliver
  svc,          \* calls of AsyncService's initiating functions
  svcStrandQ,   \* AsyncService::strand's queue
  assocQ,       \* closures posted to the caller's executor
  sysQ          \* closures posted to the system executor

moveVars == <<impl, life, implRefs, implQ, teardowns, dropped, implGone>>

streamVars == <<sys, onExec, aborted, wrapper, refs, destroyedOn, strandQ,
          inSection, callerQ, timer, loopOps, loopThrew, consuming,
          buffer_in, buffer_out, produced, head, end, ops, handle,
          allowEarlyExit, appRun, prodRun, prodWork>>

runVars == <<appRun, prodRun, prodWork>>

initVars == <<variant, initPc, initCalls, init_once, mains, mainOps, mainQ,
              timerWaiter>>

xferVars == <<xStream, xData, xHead, xEnd, xStart, xTotal, xRes>>

fnVars == <<fn, poolQ, awaitQ>>

svcVars == <<svc, svcStrandQ, assocQ, sysQ>>

vars == <<streamVars, moveVars, initVars, xferVars, fnVars, svcVars>>

\* ------------------------------------------------------------- vocabulary
\* Holders of a strong reference to the impl.
W == <<"wrapper", 0>>
T == <<"teardown", 0>>
L == <<"loop", 0>>
I == <<"init", 0>>
TaskRef(o) == <<"task", o>>
LocalRef(o) == <<"local", o>>

\* Tasks of the strand.
LoopTask == <<"loop", 0>>
MainTask == <<"main", 0>>
InitTask == <<"init", 0>>
TeardownTask == <<"teardown", 0>>
OpTask(o) == <<"op", o>>

CallbackKinds == {"read", "write", "bop_init"}
CoroKinds == {"cread", "cwrite", "bop_coro"}
ClearFlags == {"none", "in", "out", "both"}

KindsOf(s) ==
  CASE s = "producer" -> {"read"}
    [] s = "consumer" -> {"write"}
    [] OTHER -> {"cread", "cwrite", "bop_init", "bop_coro"}

IdleOp ==
  [kind |-> "none", n |-> 0, clr |-> "none",
   pc |-> "idle", inCall |-> FALSE, gone |-> FALSE, live |-> FALSE,
   xfer |-> FALSE,
   err |-> "none", it |-> 0, it2 |-> 0, data |-> <<>>,
   calls |-> 0, hOn |-> "none", hInline |-> FALSE, hInCall |-> FALSE,
   hEarly |-> FALSE, uaf |-> FALSE, guard |-> FALSE]

\* The impl object exists while somebody holds a shared_ptr to it.
ImplAlive == refs # {}

\* weak_ptr::lock() of a handle: a strong reference, or null once the impl
\* is gone.
LockNeverFails == TRUE

LockSucceeds == ImplAlive

\* std::enable_shared_from_this is effective only as a public base:
\* ProducerImpl inherits it privately (class default), ConsumerImpl and
\* ModernIOServiceImpl publicly.
SharedFromThisWorks(s) == s # "producer"

\* The refs after an action, and where the destructor ran if that action
\* dropped the last one.
DestroyedOnAfter(newRefs, ctx) ==
  IF newRefs = {} /\ refs # {} THEN ctx ELSE destroyedOn

\* The thread an initiating call runs on.
CallCtx == IF onExec THEN "caller" ELSE "user"

\* The caller's executor is driven by one thread; while an initiating call
\* made from that executor has not returned, the thread is inside it.
CallerThreadBusy == onExec /\ \E o \in Calls : ops[o].inCall

\* ------------------------------------------------------- pure transfer code
\* MyAsyncReadStream::async_read_some, the loop of the strand task: h is
\* head, it the bytes copied so far, n the destination's capacity, e the
\* stream's end, size producedData.size().
RECURSIVE ReadLoopEofOnMissingByte(_, _, _, _, _)
ReadLoopEofOnMissingByte(h, it, n, e, size) ==
  IF h <= e /\ it # n /\ h < size
    THEN ReadLoopEofOnMissingByte(h + 1, it + 1, n, e, size)
    ELSE [err |-> IF h <= e /\ it = n THEN "no_buffer_space" ELSE "eof",
          it |-> it, head |-> h]

RECURSIVE ReadLoopSourceFirst(_, _, _, _, _)
ReadLoopSourceFirst(h, it, n, e, size) ==
  IF h <= e
    THEN IF size <= h
           THEN [err |-> "would_block", it |-> it, head |-> h]
           ELSE IF it = n
                  THEN [err |-> "no_buffer_space", it |-> it, head |-> h]
                  ELSE ReadLoopSourceFirst(h + 1, it + 1, n, e, size)
    ELSE [err |-> "eof", it |-> it, head |-> h]

RECURSIVE ReadLoopKeepsFault(_, _, _, _, _)
ReadLoopKeepsFault(h, it, n, e, size) ==
  IF h <= e
    THEN IF it = n
           THEN [err |-> "no_buffer_space", it |-> it, head |-> h]
           ELSE IF size <= h
                  THEN [err |-> "fault", it |-> it, head |-> h]
                  ELSE ReadLoopKeepsFault(h + 1, it + 1, n, e, size)
    ELSE [err |-> "eof", it |-> it, head |-> h]

RECURSIVE ReadLoopPastEnd(_, _, _, _, _)
ReadLoopPastEnd(h, it, n, e, size) ==
  IF h <= e + 1
    THEN IF it = n
           THEN [err |-> "no_buffer_space", it |-> it, head |-> h]
           ELSE IF size <= h
                  THEN [err |-> "would_block", it |-> it, head |-> h]
                  ELSE ReadLoopPastEnd(h + 1, it + 1, n, e, size)
    ELSE [err |-> "eof", it |-> it, head |-> h]

RECURSIVE ReadLoop(_, _, _, _, _)
ReadLoop(h, it, n, e, size) ==
  IF h <= e
    THEN IF it = n
           THEN [err |-> "no_buffer_space", it |-> it, head |-> h]
           ELSE IF size <= h
                  THEN [err |-> "would_block", it |-> it, head |-> h]
                  ELSE ReadLoop(h + 1, it + 1, n, e, size)
    ELSE [err |-> "eof", it |-> it, head |-> h]

\* MyAsyncStream::async_read_some, the loop after the hop to the strand:
\* buf is buffer_out, it the bytes moved so far, n the destination's capacity.
\* dest is what the loop wrote through buf_begin from this point on.
RECURSIVE StreamReadLoopFromBack(_, _, _)
StreamReadLoopFromBack(buf, it, n) ==
  IF buf # <<>>
    THEN IF it = n
           THEN [err |-> "no_buffer_space", it |-> it, rest |-> buf,
                 dest |-> <<>>]
           ELSE LET r == StreamReadLoopFromBack(SubSeq(buf, 1, Len(buf) - 1),
                                                it + 1, n)
                IN [r EXCEPT !.dest = <<buf[Len(buf)]>> \o @]
    ELSE [err |-> "eof", it |-> it, rest |-> buf, dest |-> <<>>]

RECURSIVE StreamReadLoopCopiesFirst(_, _, _)
StreamReadLoopCopiesFirst(buf, it, n) ==
  IF buf # <<>>
    THEN LET r == IF it + 1 >= n
                    THEN [err |-> IF Len(buf) > 1 THEN "no_buffer_space"
                                                  ELSE "eof",
                          it |-> it + 1, rest |-> Tail(buf), dest |-> <<>>]
                    ELSE StreamReadLoopCopiesFirst(Tail(buf), it + 1, n)
         IN [r EXCEPT !.dest = <<Head(buf)>> \o @]
    ELSE [err |-> "eof", it |-> it, rest |-> buf, dest |-> <<>>]

RECURSIVE StreamReadLoopKeepsByte(_, _, _)
StreamReadLoopKeepsByte(buf, it, n) ==
  IF buf # <<>>
    THEN IF it = n
           THEN [err |-> "no_buffer_space", it |-> it, rest |-> buf,
                 dest |-> <<>>]
           ELSE LET r == StreamReadLoopKeepsByte(Tail(buf), it + 1, n)
                IN [r EXCEPT !.dest = <<Head(buf)>> \o @,
                             !.rest = <<Head(buf)>> \o @]
    ELSE [err |-> "eof", it |-> it, rest |-> buf, dest |-> <<>>]

RECURSIVE StreamReadLoop(_, _, _)
StreamReadLoop(buf, it, n) ==
  IF buf # <<>>
    THEN IF it = n
           THEN [err |-> "no_buffer_space", it |-> it, rest |-> buf,
                 dest |-> <<>>]
           ELSE LET r == StreamReadLoop(Tail(buf), it + 1, n)
                IN [r EXCEPT !.dest = <<Head(buf)>> \o @]
    ELSE [err |-> "eof", it |-> it, rest |-> buf, dest |-> <<>>]

\* The bytes a caller hands to its k-th write of n bytes.
SourceBytes(o, n) == [i \in 1..n |-> 1000 * o + i]

\* async_write_some, the loop of the strand task: every byte of the source
\* src is pushed to the back of buf (consumedData / buffer_in); it counts
\* them.
RECURSIVE WriteLoopPushesFront(_, _, _)
WriteLoopPushesFront(buf, src, it) ==
  IF src = <<>> THEN [err |-> "eof", it |-> it, buf |-> buf]
  ELSE WriteLoopPushesFront(<<Head(src)>> \o buf, Tail(src), it + 1)

RECURSIVE WriteLoop(_, _, _)
WriteLoop(buf, src, it) ==
  IF src = <<>> THEN [err |-> "eof", it |-> it, buf |-> buf]
  ELSE WriteLoop(Append(buf, Head(src)), Tail(src), it + 1)

\* gen_string(GEN_LEN, gen): the next GEN_LEN bytes of the generator, named
\* by their position in everything generated so far.
GenString(done) == [i \in 1..GEN_LEN |-> done + i]

\* std::string::erase(0, k) with k <= size.
EraseBack(str, k) == SubSeq(str, 1, Len(str) - k)

EraseFront(str, k) == SubSeq(str, k + 1, Len(str))

Min(a, b) == IF a < b THEN a ELSE b

\* ------------------------------------------------------------------- Init
\* The state right after the wrapper's constructor returned and a stream
\* handle / client was made from it.
InitRefsLoopHoldsSelf(s) == {W, L}

InitRefs(s) ==
  CASE s = "producer" -> {W}          \* first iteration posted with raw this
    [] s = "consumer" -> {W, L}       \* ensureConsuming: shared_from_this()
    [] OTHER -> {W, I, L}             \* init(): the init lambda and main()

InitStrandQ(s) ==
  CASE s = "producer" -> <<LoopTask>>
    [] s = "consumer" -> <<LoopTask>>
    [] OTHER -> <<InitTask, MainTask>>

\* Cursors a MyAsyncReadStream is constructed with (start, end).
StreamStarts == {PRODUCED_SIZE - 1, PRODUCED_SIZE}
StreamEnds == {PRODUCED_SIZE - 1, PRODUCED_SIZE}

\* ModernIOService wrapper objects and the impls they may come to own,
\* before any wrapper has been constructed.
Wrappers == 1..MaxWrappers

Impls == 1..MaxImpls

NoWrappers ==
  /\ impl = [w \in Wrappers |-> 0]
  /\ life = [w \in Wrappers |-> "none"]
  /\ implRefs = [i \in Impls |-> {}]
  /\ implQ = [i \in Impls |-> <<>>]
  /\ teardowns = [i \in Impls |-> 0]
  /\ dropped = [i \in Impls |-> FALSE]
  /\ implGone = [i \in Impls |-> "none"]

\* The service instance on which init() is called: no call made yet.
InitThreads == 1..MaxInitThreads

MainIds == 1..(MaxInitThreads * MaxInitCalls)

Variants == {"basic", "advcd"}

NoInitCalls(v) ==
  /\ variant = v
  /\ initPc = [t \in InitThreads |-> "out"]
  /\ initCalls = [t \in InitThreads |-> 0]
  /\ init_once = "idle"
  /\ mains = [m \in MainIds |-> "none"]
  /\ mainOps = [m \in MainIds |-> 0]
  /\ mainQ = <<>>
  /\ timerWaiter = 0

\* No transfer loop is run on its own.
NoResult == [ran |-> FALSE, n |-> 0, err |-> "none", it |-> 0, dest |-> <<>>,
             from |-> <<>>, head |-> 0]

\* No function of AsyncFunctions.h has been called.
FnCalls == 1..MaxFnCalls

IdleFn == [f |-> "none", failure |-> FALSE, x |-> 0, pc |-> "idle",
           thrown |-> FALSE, ex |-> "null", ec |-> "absent",
           r1 |-> 0, r2 |-> 0, raised |-> FALSE]

NoFnCalls ==
  /\ fn = [c \in FnCalls |-> IdleFn]
  /\ poolQ = <<>>
  /\ awaitQ = <<>>

\* No function of AsyncService has been called.
SvcCalls == 1..MaxSvcCalls

IdleSvc == [fun |-> "none", failure |-> FALSE, assoc |-> "none",
            p1 |-> 0, p2 |-> 0, pc |-> "idle", inCall |-> FALSE,
            computedOn |-> "none", calls |-> 0, hOn |-> "none",
            hInline |-> FALSE, hBeforeWork |-> FALSE,
            ec |-> "none", r1 |-> 0, r2 |-> 0]

NoSvcCalls ==
  /\ svc = [c \in SvcCalls |-> IdleSvc]
  /\ svcStrandQ = <<>>
  /\ assocQ = <<>>
  /\ sysQ = {}

NoTransfers ==
  /\ xStream = "none"
  /\ xData = <<>>
  /\ xHead = 0
  /\ xEnd = 0
  /\ xStart = 0
  /\ xTotal = 0
  /\ xRes = NoResult

StreamsStart ==
  /\ sys \in Systems
  /\ onExec \in BOOLEAN
  /\ aborted = FALSE
  /\ wrapper = "alive"
  /\ refs = InitRefs(sys)
  /\ destroyedOn = "none"
  /\ strandQ = InitStrandQ(sys)
  /\ inSection = {}
  /\ callerQ = <<>>
  /\ timer = FALSE
  /\ loopOps = 0
  /\ loopThrew = FALSE
  /\ consuming = (sys = "consumer")
  /\ buffer_in = <<>>
  /\ buffer_out = <<>>
  /\ produced = 0
  /\ IF sys = "producer"
       THEN head \in StreamStarts /\ end \in StreamEnds
       ELSE head = 0 /\ end = 0
  /\ ops = [o \in Calls |-> IdleOp]
  /\ handle = "alive"
  /\ appRun = "running"
  /\ prodRun = "running"
  /\ prodWork = TRUE

\* ProducerImpl's constructor as written posts veryExpensiveOperation.
StreamsIdle == StreamsStart /\ allowEarlyExit = FALSE

Init ==
  /\ StreamsIdle
  /\ NoWrappers
  /\ NoInitCalls("basic")
  /\ NoTransfers
  /\ NoFnCalls
  /\ NoSvcCalls

\* ------------------------------------------------------ executors and posts
\* asio::post(strand, task): the task joins the strand's queue.
PostToStrandFront(q, t) == <<t>> \o q

PostToStrand(q, t) == Append(q, t)

\* asio::post(executor, closure): the closure joins the caller's executor.
PostToCallerTwice(q, c) == Append(Append(q, c), c)

PostToCaller(q, c) == Append(q, c)

\* A strand runs one task at a time, in submission order.
StrandFreeWithoutStrand == TRUE

StrandFree == inSection = {}

\* asio::co_spawn(comp_executor, ...) dispatches: called on comp_executor
\* itself it runs the coroutine at once, up to its first suspension;
\* called from elsewhere it queues the coroutine's start.
SpawnRunsInline(onx) == onx

\* asio::post(impl->strand, [impl = std::move(impl), ...]): the arguments
\* are indeterminately sequenced; evaluated right to left, impl is already
\* null when impl->strand is formed.  MyAsyncReadStream::async_read_some and
\* async_buffer_op_initiate are written that way, async_write_some copies
\* impl into the task.
ArgOrders == {"ltr", "rtl"}

StrandArgDangles(k, order) == order = "rtl" /\ k \in {"read", "bop_init"}

\* The strand task / coroutine goes back to the caller's side before the
\* completion handler is called.
StaysOnStrand(k) == FALSE

HopsBackToCaller(k) == TRUE

\* The steps of an operation that run after the initiating call and go
\* through the captured this of the stream handle: the strand task of
\* MyAsyncReadStream (head, end, executor) and of MyAsyncWriteStream
\* (executor), and the start of MyAsyncStream's coroutine (impl_ptr).  The
\* posted bad_descriptor and completion closures hold none of it; the
\* client of the buffer operations is not a stream handle.
UsesHandleInEveryStep(k, step) == k \in {"read", "write", "cread", "cwrite"}

UsesHandle(k, step) ==
  \/ step = "transfer" /\ k \in {"read", "write"}
  \/ step = "start" /\ k \in {"cread", "cwrite"}

\* A step of op goes through this: uaf records that the handle was already
\* destroyed (the step then read or wrote memory no longer owned).
Touch(op, step) ==
  [op EXCEPT !.uaf = @ \/ (handle = "destroyed" /\ UsesHandle(op.kind, step))]

\* A completion handler is called with (e, t, t2) on ctx; inline says it is
\* called by the initiating function itself.
Invoke(op, e, t, t2, ctx, inline) ==
  [op EXCEPT !.calls = @ + 1, !.err = e, !.it = t, !.it2 = t2,
             !.hOn = IF op.calls = 0 \/ @ = ctx THEN ctx ELSE "mixed",
             !.hInline = @ \/ inline,
             !.hInCall = @ \/ op.inCall,
             !.hEarly = @ \/ (op.live /\ ~op.xfer),
             !.pc = "done"]

\* ------------------------------------------------------- initiating calls
\* The initiating functions of ModernIOService's stream and client keep
\* nothing once they have posted or spawned (impl is moved into the task or
\* lives in the coroutine): their return is part of the initiating step.
\* async_read_some / async_write_some of the Producer and Consumer streams
\* return in a step of their own.
ReturnFolded(k) == k \notin {"read", "write"}

AtReturn(op) == IF ReturnFolded(op.kind) THEN [op EXCEPT !.inCall = FALSE]
                                         ELSE op

\* The strong references an operation of kind k takes once lock() succeeded:
\* the impl captured by the strand task (kept as a local by a coroutine),
\* and for async_write_some also the local the task's impl was copied from.
OpRefsRawPointer(o, k) == {}

OpRefs(o, k) ==
  {TaskRef(o)} \cup (IF k = "write" THEN {LocalRef(o)} ELSE {})

\* An operation that resolved the impl keeps work outstanding on the
\* caller's executor: resultWorkGuard / workGuard travels in the strand
\* task of the callback-style operations; a coroutine spawned on the
\* caller's executor is itself outstanding work there until it ends.
TakesNoGuard(k) == FALSE

TakesGuard(k) == TRUE

\* MyAsyncReadStream::async_read_some, MyAsyncWriteStream::async_write_some
\* and ModernIOServiceClient::async_buffer_op_initiate, up to their post.
InitiateCallback(o, op1) ==
  LET op0 == [op1 EXCEPT !.gone = ~ImplAlive] IN
  IF ~LockSucceeds
    THEN /\ callerQ' = PostToCaller(callerQ, <<o, "bad">>)
         /\ ops' = [ops EXCEPT ![o] = AtReturn([op0 EXCEPT !.pc = "posted"])]
         /\ UNCHANGED <<refs, strandQ, aborted>>
    ELSE \E order \in ArgOrders :
      IF StrandArgDangles(op0.kind, order)
      THEN /\ aborted' = TRUE
           /\ ops' = [ops EXCEPT ![o] = [op0 EXCEPT !.live = TRUE,
                                                     !.pc = "crashed"]]
           /\ UNCHANGED <<refs, strandQ, callerQ>>
      ELSE /\ strandQ' = PostToStrand(strandQ, OpTask(o))
           /\ refs' = refs \cup OpRefs(o, op0.kind)
           /\ ops' = [ops EXCEPT ![o] =
                        AtReturn([op0 EXCEPT !.live = TRUE, !.pc = "queued",
                                             !.guard = TakesGuard(op0.kind)])]
           /\ UNCHANGED <<callerQ, aborted>>

\* The coroutine of MyAsyncStream::async_read_some / async_write_some and of
\* async_buffer_op_coro, from its start to its first suspension.
CoroStart(o, op1, inline) ==
  LET op2 == IF inline THEN op1 ELSE Touch(op1, "start")
      op0 == [op2 EXCEPT !.gone = ~ImplAlive] IN
  IF ~LockSucceeds
    THEN /\ ops' = [ops EXCEPT ![o] =
              AtReturn(Invoke(op0, "bad_descriptor", 0, 0, "caller", inline))]
         /\ UNCHANGED <<refs, strandQ>>
    ELSE /\ strandQ' = PostToStrand(strandQ, OpTask(o))
         /\ refs' = refs \cup OpRefs(o, op0.kind)
         /\ ops' = [ops EXCEPT ![o] =
                      AtReturn([op0 EXCEPT !.live = TRUE, !.pc = "queued",
                                           !.guard = TakesGuard(op0.kind)])]

InitiateCoro(o, op0) ==
  IF SpawnRunsInline(onExec)
    THEN CoroStart(o, op0, TRUE) /\ UNCHANGED <<callerQ, aborted>>
    ELSE /\ callerQ' = PostToCaller(callerQ, <<o, "spawn">>)
         /\ ops' = [ops EXCEPT ![o] = AtReturn([op0 EXCEPT !.pc = "spawned"])]
         /\ UNCHANGED <<refs, strandQ, aborted>>

Initiate(o, k, n, clr) ==
  /\ ~aborted
  /\ handle = "alive"
  /\ ops[o].pc = "idle"
  /\ \A p \in Calls : p < o => ops[p].pc # "idle"
  /\ k \in KindsOf(sys)
  /\ ~CallerThreadBusy
  /\ IF k \in {"bop_init", "bop_coro"} THEN n = 0 ELSE clr = "none"
  /\ n <= (IF k \in {"write", "cwrite"} THEN MaxSrc ELSE MaxBuf)
  /\ LET op0 == [IdleOp EXCEPT !.kind = k, !.n = n, !.clr = clr,
                               !.inCall = TRUE]
     IN IF k \in CallbackKinds THEN InitiateCallback(o, op0)
                               ELSE InitiateCoro(o, op0)
  /\ UNCHANGED <<moveVars, initVars, xferVars, fnVars, svcVars, runVars, allowEarlyExit, handle, sys, onExec, wrapper, destroyedOn, inSection, timer,
                 loopOps, loopThrew, consuming, buffer_in, buffer_out,
                 produced, head, end>>

\* The initiating function returns; async_write_some's local impl (copied,
\* not moved, into the strand task) is released here, on the calling thread.
Return(o) ==
  /\ ~aborted
  /\ ops[o].inCall
  /\ ops' = [ops EXCEPT ![o].inCall = FALSE]
  /\ refs' = refs \ {LocalRef(o)}
  /\ destroyedOn' = DestroyedOnAfter(refs \ {LocalRef(o)}, CallCtx)
  /\ UNCHANGED <<moveVars, initVars, xferVars, fnVars, svcVars, runVars, allowEarlyExit, handle, sys, onExec, aborted, wrapper, strandQ, inSection,
                 callerQ, timer, loopOps, loopThrew, consuming, buffer_in,
                 buffer_out, produced, head, end>>

\* ------------------------------------------------- the caller's executor
\* The executor runs its oldest closure: the posted bad_descriptor delivery,
\* the posted completion, or the start of a coroutine.
CallerRun ==
  /\ ~aborted
  /\ callerQ # <<>>
  /\ ~CallerThreadBusy
  /\ LET o == Head(callerQ)[1]
         what == Head(callerQ)[2]
         op == ops[o]
     IN /\ callerQ' = Tail(callerQ)
        /\ CASE what = "bad" ->
                  /\ ops' = [ops EXCEPT ![o] =
                       Invoke(Touch(op, "bad"), "bad_descriptor", 0, 0,
                              "caller", FALSE)]
                  /\ UNCHANGED <<refs, strandQ, destroyedOn>>
             [] what = "spawn" ->
                  /\ CoroStart(o, op, FALSE)
                  /\ UNCHANGED destroyedOn
             [] OTHER ->
                  \* the coroutine ends after calling the handler: its
                  \* local impl is released on this executor
                  /\ ops' = [ops EXCEPT ![o] =
                       [Invoke(Touch(op, "complete"), op.err, op.it, op.it2,
                               "caller", FALSE) EXCEPT !.guard = FALSE]]
                  /\ refs' = refs \ {TaskRef(o)}
                  /\ destroyedOn' =
                       DestroyedOnAfter(refs \ {TaskRef(o)}, "caller")
                  /\ UNCHANGED strandQ
  /\ UNCHANGED <<moveVars, initVars, xferVars, fnVars, svcVars, runVars, allowEarlyExit, handle, sys, onExec, aborted, wrapper, inSection, timer, loopOps,
                 loopThrew, consuming, buffer_in, buffer_out, produced,
                 head, end>>

\* ------------------------------------------------------------ the strand
\* A service thread takes the strand's oldest task and starts executing it.
StrandBegin ==
  /\ ~aborted
  /\ strandQ # <<>>
  /\ StrandFree
  /\ Cardinality(inSection) < ServiceThreads
  /\ inSection' = inSection \cup {Head(strandQ)}
  /\ strandQ' = Tail(strandQ)
  /\ ops' = IF Head(strandQ)[1] = "op"
              THEN [ops EXCEPT ![Head(strandQ)[2]].pc = "running"]
              ELSE ops
  /\ UNCHANGED <<moveVars, initVars, xferVars, fnVars, svcVars, runVars, allowEarlyExit, handle, sys, onExec, aborted, wrapper, refs, destroyedOn, callerQ,
                 timer, loopOps, loopThrew, consuming, buffer_in, buffer_out,
                 produced, head, end>>

\* ModernIOServiceImpl::init: the lambda posted to the strand runs and is
\* destroyed with its captured_self.
InitLambda ==
  /\ ~aborted
  /\ InitTask \in inSection
  /\ inSection' = inSection \ {InitTask}
  /\ refs' = refs \ {I}
  /\ destroyedOn' = DestroyedOnAfter(refs \ {I}, "strand")
  /\ UNCHANGED <<moveVars, initVars, xferVars, fnVars, svcVars, runVars, allowEarlyExit, handle, sys, onExec, aborted, wrapper, strandQ, callerQ, timer,
                 loopOps, loopThrew, consuming, buffer_in, buffer_out,
                 produced, head, end, ops>>

\* ModernIOServiceImpl::main, from its start on the strand to the first
\* co_await of the timer.
MainStart ==
  /\ ~aborted
  /\ MainTask \in inSection
  /\ inSection' = inSection \ {MainTask}
  /\ IF 0 < MAX_OPS
       THEN timer' = TRUE /\ UNCHANGED <<refs, destroyedOn>>
       ELSE /\ timer' = timer
            /\ refs' = refs \ {L}
            /\ destroyedOn' = DestroyedOnAfter(refs \ {L}, "strand")
  /\ UNCHANGED <<moveVars, initVars, xferVars, fnVars, svcVars, runVars, allowEarlyExit, handle, sys, onExec, aborted, wrapper, strandQ, callerQ, loopOps,
                 loopThrew, consuming, buffer_in, buffer_out, produced, head,
                 end, ops>>

\* ModernIOServiceImpl::main, one iteration after the timer: produce
\* GEN_LEN bytes, consume up to CONSUME_LEN, then wait again or finish and
\* drop captured_self.
MainIteration ==
  /\ ~aborted
  /\ sys = "modern"
  /\ LoopTask \in inSection
  /\ inSection' = inSection \ {LoopTask}
  /\ buffer_out' = buffer_out \o GenString(produced)
  /\ produced' = produced + GEN_LEN
  /\ buffer_in' = EraseFront(buffer_in, Min(CONSUME_LEN, Len(buffer_in)))
  /\ loopOps' = loopOps + 1
  /\ IF loopOps + 1 < MAX_OPS
       THEN timer' = TRUE /\ UNCHANGED <<refs, destroyedOn>>
       ELSE /\ timer' = timer
            /\ refs' = refs \ {L}
            /\ destroyedOn' = DestroyedOnAfter(refs \ {L}, "strand")
  /\ UNCHANGED <<moveVars, initVars, xferVars, fnVars, svcVars, runVars, allowEarlyExit, handle, sys, onExec, aborted, wrapper, strandQ, callerQ,
                 loopThrew, consuming, head, end, ops>>

\* ProducerImpl::veryExpensiveOperation.  shared_from_this() comes first:
\* without a usable enable_shared_from_this base it throws bad_weak_ptr
\* before ops is touched, and the exception leaves the strand task and
\* io_context::run(); the thread that called run() either lets it end the
\* process or calls run() again.
ProducerIteration ==
  /\ ~aborted
  /\ sys = "producer"
  /\ ~allowEarlyExit
  /\ LoopTask \in inSection
  /\ inSection' = inSection \ {LoopTask}
  /\ IF ~ImplAlive
       THEN /\ aborted' = TRUE
            /\ UNCHANGED <<loopThrew, loopOps, timer, refs, destroyedOn>>
       ELSE IF ~SharedFromThisWorks(sys)
         THEN /\ loopThrew' = TRUE
              /\ aborted' \in BOOLEAN
              /\ UNCHANGED <<loopOps, timer, refs, destroyedOn>>
         ELSE /\ loopOps' = loopOps + 1
              /\ IF loopOps + 1 < MAX_MODS
                   THEN /\ timer' = TRUE
                        /\ refs' = refs \cup {L}
                        /\ destroyedOn' = destroyedOn
                   ELSE /\ timer' = timer
                        /\ refs' = refs \ {L}
                        /\ destroyedOn' =
                             DestroyedOnAfter(refs \ {L}, "strand")
              /\ UNCHANGED <<aborted, loopThrew>>
  /\ UNCHANGED <<moveVars, initVars, xferVars, fnVars, svcVars, runVars, allowEarlyExit, handle, sys, onExec, wrapper, strandQ, callerQ, consuming,
                 buffer_in, buffer_out, produced, head, end, ops>>

\* ConsumerImpl::veryExpensiveOperation(captured_self): consume() one byte
\* and wait for the timer, or stop the loop and drop captured_self.
ConsumerIteration ==
  /\ ~aborted
  /\ sys = "consumer"
  /\ LoopTask \in inSection
  /\ inSection' = inSection \ {LoopTask}
  /\ IF buffer_in # <<>>
       THEN /\ buffer_in' = EraseFront(buffer_in, 1)
            /\ timer' = TRUE
            /\ UNCHANGED <<consuming, refs, destroyedOn>>
       ELSE /\ consuming' = FALSE
            /\ refs' = refs \ {L}
            /\ destroyedOn' = DestroyedOnAfter(refs \ {L}, "strand")
            /\ UNCHANGED <<buffer_in, timer>>
  /\ UNCHANGED <<moveVars, initVars, xferVars, fnVars, svcVars, runVars, allowEarlyExit, handle, sys, onExec, aborted, wrapper, strandQ, callerQ, loopOps,
                 loopThrew, buffer_out, produced, head, end, ops>>

\* The steady_timer expires: its handler, bound to the strand, is queued.
TimerExpire ==
  /\ ~aborted
  /\ timer
  /\ timer' = FALSE
  /\ strandQ' = PostToStrand(strandQ, LoopTask)
  /\ UNCHANGED <<moveVars, initVars, xferVars, fnVars, svcVars, runVars, allowEarlyExit, handle, sys, onExec, aborted, wrapper, refs, destroyedOn,
                 inSection, callerQ, loopOps, loopThrew, consuming,
                 buffer_in, buffer_out, produced, head, end, ops>>

\* The task the wrapper's destructor posted: an empty body; the task object
\* and the impl it captured are destroyed after it ran.
Teardown ==
  /\ ~aborted
  /\ TeardownTask \in inSection
  /\ inSection' = inSection \ {TeardownTask}
  /\ refs' = refs \ {T}
  /\ destroyedOn' = DestroyedOnAfter(refs \ {T}, "strand")
  /\ UNCHANGED <<moveVars, initVars, xferVars, fnVars, svcVars, runVars, allowEarlyExit, handle, sys, onExec, aborted, wrapper, strandQ, callerQ, timer,
                 loopOps, loopThrew, consuming, buffer_in, buffer_out,
                 produced, head, end, ops>>

\* The buffer operations: if (buffer_in_clear) impl->buffer_in = "", and
\* the same for buffer_out.
ClearedAlways(buf, flag) == <<>>

Cleared(buf, flag) == IF flag THEN <<>> ELSE buf

\* The effect of an operation's transfer step on the service's data:
\* the record of what the strand task computed.
TransferResult(op, o) ==
  CASE op.kind = "read" ->
         LET r == ReadLoop(head, 0, op.n, end, PRODUCED_SIZE)
         IN [err |-> r.err, it |-> r.it, it2 |-> 0, head |-> r.head,
             data |-> <<>>, bin |-> buffer_in, bout |-> buffer_out]
    [] op.kind = "cread" ->
         LET r == StreamReadLoop(buffer_out, 0, op.n)
         IN [err |-> r.err, it |-> r.it, it2 |-> 0, head |-> head,
             data |-> r.dest, bin |-> buffer_in, bout |-> r.rest]
    [] op.kind \in {"write", "cwrite"} ->
         LET r == WriteLoop(buffer_in, SourceBytes(o, op.n), 0)
         IN [err |-> r.err, it |-> r.it, it2 |-> 0, head |-> head,
             data |-> <<>>, bin |-> r.buf, bout |-> buffer_out]
    [] OTHER ->
         [err |-> "success", it |-> Len(buffer_in), it2 |-> Len(buffer_out),
          head |-> head, data |-> <<>>,
          bin |-> Cleared(buffer_in, op.clr \in {"in", "both"}),
          bout |-> Cleared(buffer_out, op.clr \in {"out", "both"})]

\* ConsumerImpl::ensureConsuming: a loop step is posted only when the flag
\* says that none is pending.
EnsureConsumingAlwaysStarts(flag) == TRUE

EnsureConsumingStarts(flag) == ~flag

\* The strand task of an operation (the coroutine's stretch on the strand):
\* the transfer, ConsumerImpl::ensureConsuming for a write, then the
\* completion is sent to the caller's side.  The task object of the
\* callback-style operations dies here with its captured impl; a coroutine
\* keeps its local impl until it ends.
OpTransfer(o) ==
  /\ ~aborted
  /\ OpTask(o) \in inSection
  /\ inSection' = inSection \ {OpTask(o)}
  /\ LET op == Touch(ops[o], "transfer")
         r == TransferResult(op, o)
         done == [op EXCEPT !.xfer = TRUE, !.err = r.err, !.it = r.it,
                            !.it2 = r.it2, !.data = r.data,
                            !.pc = "posted",
                            !.guard = @ /\ op.kind \notin CallbackKinds]
         restart == op.kind = "write" /\ EnsureConsumingStarts(consuming)
         kept == IF op.kind \in CallbackKinds
                   THEN refs \ {TaskRef(o)} ELSE refs
         newRefs == IF restart THEN kept \cup {L} ELSE kept
     IN /\ head' = r.head
        /\ buffer_in' = r.bin
        /\ buffer_out' = r.bout
        /\ consuming' = IF op.kind = "write" THEN TRUE ELSE consuming
        /\ strandQ' = IF restart THEN PostToStrand(strandQ, LoopTask)
                                 ELSE strandQ
        /\ refs' = newRefs
        /\ destroyedOn' = DestroyedOnAfter(newRefs, "strand")
        /\ IF HopsBackToCaller(op.kind)
             THEN /\ callerQ' = PostToCaller(callerQ, <<o, "complete">>)
                  /\ ops' = [ops EXCEPT ![o] = done]
             ELSE /\ callerQ' = callerQ
                  /\ ops' = [ops EXCEPT ![o] =
                       Invoke(done, r.err, r.it, r.it2, "strand", FALSE)]
  /\ UNCHANGED <<moveVars, initVars, xferVars, fnVars, svcVars, runVars, allowEarlyExit, handle, sys, onExec, aborted, wrapper, timer, loopOps, loopThrew,
                 produced, end>>

\* -------------------------------------------------------------- teardown
\* ~Producer / ~Consumer / ~ModernIOService: the wrapper's shared_ptr is
\* moved into a task posted to the impl's strand.  ~Producer names the
\* strand through impl in the same call that moves impl away; ~Consumer
\* copies the strand first and ~ModernIOService uses its work guard.
DestructorArgDangles(order) == order = "rtl" /\ sys = "producer"

DestroyWrapperInPlace ==
  /\ ~aborted
  /\ wrapper = "alive"
  /\ wrapper' = "destroyed"
  /\ refs' = refs \ {W}
  /\ destroyedOn' = DestroyedOnAfter(refs \ {W}, CallCtx)
  /\ UNCHANGED <<moveVars, initVars, xferVars, fnVars, svcVars, runVars,
                 allowEarlyExit, handle, sys, onExec, aborted, strandQ,
                 inSection, callerQ, timer, loopOps, loopThrew, consuming,
                 buffer_in, buffer_out, produced, head, end, ops>>

DestroyWrapper ==
  /\ ~aborted
  /\ wrapper = "alive"
  /\ wrapper' = "destroyed"
  /\ \E order \in ArgOrders :
     IF DestructorArgDangles(order)
       THEN aborted' = TRUE /\ UNCHANGED <<refs, strandQ>>
       ELSE /\ refs' = (refs \ {W}) \cup {T}
            /\ strandQ' = PostToStrand(strandQ, TeardownTask)
            /\ aborted' = aborted
  /\ UNCHANGED <<moveVars, initVars, xferVars, fnVars, svcVars, runVars, allowEarlyExit, handle, sys, onExec, destroyedOn, inSection, callerQ, timer,
                 loopOps, loopThrew, consuming, buffer_in, buffer_out,
                 produced, head, end, ops>>

\* The user destroys the stream handle (not from inside one of its own
\* member functions); operations already initiated stay in flight.
DestroyHandle ==
  /\ ~aborted
  /\ handle = "alive"
  /\ \A o \in Calls : ~ops[o].inCall
  /\ handle' = "destroyed"
  /\ UNCHANGED <<moveVars, initVars, xferVars, fnVars, svcVars, runVars, allowEarlyExit, sys, onExec, aborted, wrapper, refs, destroyedOn,
                 strandQ, inSection, callerQ, timer, loopOps, loopThrew,
                 consuming, buffer_in, buffer_out, produced, head, end, ops>>

\* The next step of operation o goes through a destroyed handle.
NextStepUsesDeadHandle(o) ==
  /\ handle = "destroyed"
  /\ \/ OpTask(o) \in inSection /\ UsesHandle(ops[o].kind, "transfer")
     \/ /\ callerQ # <<>> /\ Head(callerQ) = <<o, "spawn">>
        /\ ~CallerThreadBusy
        /\ UsesHandle(ops[o].kind, "start")

\* Reading or writing a destroyed handle is undefined: the step either
\* finds the memory as the handle left it (the step as modelled above,
\* marked uaf) or faults, which ends the process.
HandleFault(o) ==
  /\ ~aborted
  /\ NextStepUsesDeadHandle(o)
  /\ aborted' = TRUE
  /\ ops' = [ops EXCEPT ![o] = [@ EXCEPT !.uaf = TRUE, !.pc = "crashed"]]
  /\ UNCHANGED <<moveVars, initVars, xferVars, fnVars, svcVars, runVars, allowEarlyExit, handle, sys, onExec, wrapper, refs, destroyedOn,
                 strandQ, inSection, callerQ, timer, loopOps, loopThrew,
                 consuming, buffer_in, buffer_out, produced, head, end>>

\* The strand task's capture of the caller-supplied buffer descriptor:
\* MyAsyncReadStream::async_read_some captures &buffer, a reference to the
\* caller's object; async_write_some and MyAsyncStream's coroutines hold a
\* copy.
CapturesBufferByValue(k) == k # "read"

\* The running strand task of o refers to a descriptor in the frame of an
\* initiating call that has returned.
BufferDangles(o) ==
  /\ OpTask(o) \in inSection
  /\ ~CapturesBufferByValue(ops[o].kind)
  /\ ~ops[o].inCall

\* Using the dangling descriptor is undefined: the task either finds it
\* intact (OpTransfer) or faults, which ends the process.
BufferFault(o) ==
  /\ ~aborted
  /\ BufferDangles(o)
  /\ aborted' = TRUE
  /\ ops' = [ops EXCEPT ![o].pc = "crashed"]
  /\ UNCHANGED <<moveVars, initVars, xferVars, fnVars, svcVars, runVars, allowEarlyExit, handle, sys, onExec, wrapper, refs, destroyedOn,
                 strandQ, inSection, callerQ, timer, loopOps, loopThrew,
                 consuming, buffer_in, buffer_out, produced, head, end>>

\* ------------------------------------------------------------------ Next
StrandStep ==
  \/ StrandBegin
  \/ InitLambda
  \/ MainStart
  \/ MainIteration
  \/ ProducerIteration
  \/ ConsumerIteration
  \/ Teardown
  \/ \E o \in Calls : OpTransfer(o)

UserStep ==
  \/ \E o \in Calls, k \in CallbackKinds \cup CoroKinds, n \in 0..MaxSrc,
        clr \in ClearFlags : Initiate(o, k, n, clr)
  \/ \E o \in Calls : Return(o)
  \/ DestroyWrapper
  \/ DestroyHandle

Next ==
  \/ StrandStep
  \/ CallerRun
  \/ TimerExpire
  \/ UserStep
  \/ \E o \in Calls : HandleFault(o)
  \/ \E o \in Calls : BufferFault(o)

Spec == Init /\ [][Next]_vars

\* The strand's threads, the caller's executor, the timer and the threads
\* inside an initiating call keep running.
FairSpec ==
  /\ Spec
  /\ WF_vars(StrandStep)
  /\ WF_vars(CallerRun)
  /\ WF_vars(TimerExpire)
  /\ \A o \in Calls : WF_vars(Return(o))

\* ------------------------------- ProducerImpl with the early-exit loop
\* The constructor's other choice (AsyncReadStreamDemo.h:137): the posted
\* task calls veryExpensiveOperationAllowEarlyExit.
\* weak_from_this() refers to the instance only when make_shared found the
\* enable_shared_from_this base, as for shared_from_this().
WeakFromThisRefers(s) == SharedFromThisWorks(s)

\* veryExpensiveOperationAllowEarlyExit, called by the constructor's task
\* (through the raw this) or by the timer's handler (after its own lock()
\* of the weak reference succeeded): with a strong_self it counts, modifies
\* and appends, and re-arms the timer with a handler that captures the weak
\* reference only; without one it does nothing.
EarlyExitIteration ==
  /\ ~aborted
  /\ sys = "producer"
  /\ allowEarlyExit
  /\ LoopTask \in inSection
  /\ inSection' = inSection \ {LoopTask}
  /\ IF ~ImplAlive
       THEN /\ aborted' = (loopOps = 0)
            /\ UNCHANGED <<loopOps, timer>>
       ELSE IF WeakFromThisRefers(sys)
         THEN /\ loopOps' = loopOps + 1
              /\ timer' = (loopOps + 1 < MAX_MODS)
              /\ aborted' = aborted
         ELSE UNCHANGED <<loopOps, timer, aborted>>
  /\ UNCHANGED <<moveVars, initVars, xferVars, fnVars, svcVars, runVars,
                 allowEarlyExit, handle, sys, onExec, wrapper, refs,
                 destroyedOn, strandQ, callerQ, loopThrew, consuming,
                 buffer_in, buffer_out, produced, head, end, ops>>

InitEarlyExit ==
  /\ StreamsStart /\ sys = "producer" /\ allowEarlyExit = TRUE
  /\ NoWrappers
  /\ NoInitCalls("basic")
  /\ NoTransfers
  /\ NoFnCalls
  /\ NoSvcCalls

\* No timer wait is ever started in this variant (see C34), so the timer's
\* expiry is not among the steps.
NextEarlyExit ==
  \/ StrandBegin
  \/ EarlyExitIteration
  \/ Teardown
  \/ \E o \in Calls : OpTransfer(o)
  \/ CallerRun
  \/ UserStep
  \/ \E o \in Calls : HandleFault(o)
  \/ \E o \in Calls : BufferFault(o)

SpecEarlyExit == InitEarlyExit /\ [][NextEarlyExit]_vars

\* --------------------------------------------------- the demos' main()
\* main() of mainWrite.cpp, mainRead.cpp and work_guards.cpp, and the
\* wrapper's own guard in coro_advcd_io_object.cpp: the service context is
\* run by a thread of its own and kept running by a work guard; the caller's
\* context is run by main until it has no work; leaving the block destroys
\* the wrapper (which posts the teardown task) and then the work guard; the
\* service thread is joined afterwards.
demoFrame == <<moveVars, initVars, xferVars, fnVars, svcVars, sys, onExec,
               aborted, wrapper, refs, destroyedOn, strandQ, inSection,
               callerQ, timer, loopOps, loopThrew, consuming, buffer_in,
               buffer_out, produced, head, end, ops, handle, allowEarlyExit>>

\* io_context::run() returns when the context has no outstanding work:
\* nothing queued, no work guard, no asynchronous wait.
AppIdle ==
  /\ callerQ = <<>>
  /\ \A o \in Calls : ~ops[o].guard /\ ~ops[o].inCall

ServiceIdle == strandQ = <<>> /\ inSection = {} /\ ~timer

\* appIO.run() returns.
AppRunReturns ==
  /\ ~aborted
  /\ appRun = "running"
  /\ AppIdle
  /\ appRun' = "returned"
  /\ UNCHANGED <<demoFrame, prodRun, prodWork>>

\* The end of main's block: ~prodWork, after the wrapper's destructor.
ReleaseWork ==
  /\ ~aborted
  /\ appRun = "returned"
  /\ wrapper = "destroyed"
  /\ prodWork
  /\ prodWork' = FALSE
  /\ UNCHANGED <<demoFrame, appRun, prodRun>>

\* prodIO.run() returns in the service thread.
ProdRunReturns ==
  /\ ~aborted
  /\ prodRun = "running"
  /\ ~prodWork
  /\ ServiceIdle
  /\ prodRun' = "returned"
  /\ UNCHANGED <<demoFrame, appRun, prodWork>>

\* The caller's code: it runs on or before appIO.run() and may destroy the
\* wrapper itself (mainCo's local service).
DemoUser ==
  /\ appRun = "running"
  /\ \/ \E o \in Calls, k \in CallbackKinds \cup CoroKinds, n \in 0..MaxSrc,
           clr \in ClearFlags : Initiate(o, k, n, clr)
     \/ \E o \in Calls : Return(o)
     \/ DestroyWrapper

\* The end of main's block: the wrapper's destructor, if it is still there.
DemoDestroy == appRun = "returned" /\ DestroyWrapper

DemoCaller == appRun = "running" /\ CallerRun

DemoService == prodRun = "running" /\ (StrandStep \/ TimerExpire)

NextDemo ==
  \/ DemoUser
  \/ DemoCaller
  \/ DemoService
  \/ AppRunReturns
  \/ DemoDestroy
  \/ ReleaseWork
  \/ ProdRunReturns
  \/ \E o \in Calls : BufferFault(o)

SpecDemo == Init /\ [][NextDemo]_vars

\* Every thread keeps running: the service thread, main in appIO.run() and
\* on its way out of the block, and the threads inside an initiating call.
FairSpecDemo ==
  /\ SpecDemo
  /\ WF_vars(DemoService)
  /\ WF_vars(DemoCaller)
  /\ \A o \in Calls : WF_vars(Return(o))
  /\ WF_vars(AppRunReturns)
  /\ WF_vars(DemoDestroy)
  /\ WF_vars(ReleaseWork)
  /\ WF_vars(ProdRunReturns)

\* ------------------------------------------- ModernIOService wrapper objects
\* The special member functions of the ModernIOService wrapper, followed
\* over several wrapper objects and impls.  The streams are left idle.
WrapperRef(w) == <<"wrapper", w>>

Created == {i \in Impls : teardowns[i] > 0 \/ dropped[i] \/ implRefs[i] # {}}

\* shared_ptr release of holder h of impl i by code running on ctx.
ReleaseRef(rs, gone, i, h, ctx) ==
  [refs |-> [rs EXCEPT ![i] = @ \ {h}],
   gone |-> IF rs[i] # {} /\ rs[i] \ {h} = {}
              THEN [gone EXCEPT ![i] = ctx] ELSE gone]

\* explicit ModernIOService(ServiceExecutor&&): make_shared, work guard,
\* impl->init() (the init lambda and the main loop hold shared_from_this).
Construct(w) ==
  /\ life[w] = "none"
  /\ \E i \in Impls :
       /\ i \notin Created
       /\ \A j \in Impls : j < i => j \in Created
       /\ impl' = [impl EXCEPT ![w] = i]
       /\ implRefs' = [implRefs EXCEPT ![i] = {WrapperRef(w), L}]
  /\ life' = [life EXCEPT ![w] = "alive"]
  /\ UNCHANGED <<streamVars, initVars, xferVars, fnVars, svcVars, implQ, teardowns, dropped, implGone>>

\* ModernIOService(ModernIOService&&) = default: impl and workGuard are
\* move-constructed; the source's impl becomes null.
MoveConstruct(w, src) ==
  /\ life[w] = "none" /\ life[src] = "alive"
  /\ impl' = [impl EXCEPT ![w] = impl[src], ![src] = 0]
  /\ life' = [life EXCEPT ![w] = "alive"]
  /\ implRefs' = IF impl[src] = 0 THEN implRefs
                 ELSE [implRefs EXCEPT ![impl[src]] =
                         (@ \ {WrapperRef(src)}) \cup {WrapperRef(w)}]
  /\ UNCHANGED <<streamVars, initVars, xferVars, fnVars, svcVars, implQ, teardowns, dropped, implGone>>

\* operator=(ModernIOService&&) = default: memberwise move assignment;
\* shared_ptr's move assignment releases what the target held, in place.
MoveAssign(dst, src) ==
  /\ dst # src
  /\ life[dst] = "alive" /\ life[src] = "alive"
  /\ LET old == impl[dst]
         new == impl[src]
         rel == IF old = 0 THEN [refs |-> implRefs, gone |-> implGone]
                ELSE ReleaseRef(implRefs, implGone, old, WrapperRef(dst),
                                "user")
     IN /\ impl' = [impl EXCEPT ![dst] = new, ![src] = 0]
        /\ implRefs' = IF new = 0 THEN rel.refs
                       ELSE [rel.refs EXCEPT ![new] =
                               (@ \ {WrapperRef(src)}) \cup {WrapperRef(dst)}]
        /\ implGone' = rel.gone
        /\ dropped' = IF old = 0 THEN dropped
                      ELSE [dropped EXCEPT ![old] = TRUE]
  /\ UNCHANGED <<streamVars, initVars, xferVars, fnVars, svcVars, life, implQ, teardowns>>

\* ~ModernIOService(): nothing when impl is null; otherwise the impl moves
\* into a packaged_task posted to the work guard's executor (the strand).
DestroyService(w) ==
  /\ life[w] = "alive"
  /\ life' = [life EXCEPT ![w] = "destroyed"]
  /\ IF impl[w] = 0
       THEN UNCHANGED <<impl, implRefs, implQ, teardowns>>
       ELSE LET i == impl[w]
                t == <<"teardown", teardowns[i] + 1>>
            IN /\ impl' = [impl EXCEPT ![w] = 0]
               /\ implRefs' = [implRefs EXCEPT ![i] =
                                 (@ \ {WrapperRef(w)}) \cup {t}]
               /\ implQ' = [implQ EXCEPT ![i] = PostToStrand(@, t)]
               /\ teardowns' = [teardowns EXCEPT ![i] = @ + 1]
  /\ UNCHANGED <<streamVars, initVars, xferVars, fnVars, svcVars, dropped, implGone>>

\* The strand runs a posted teardown task and destroys its closure.
RunTeardown(i) ==
  /\ implQ[i] # <<>>
  /\ LET rel == ReleaseRef(implRefs, implGone, i, Head(implQ[i]), "strand")
     IN implRefs' = rel.refs /\ implGone' = rel.gone
  /\ implQ' = [implQ EXCEPT ![i] = Tail(@)]
  /\ UNCHANGED <<streamVars, initVars, xferVars, fnVars, svcVars, impl, life, teardowns, dropped>>

\* The impl's init lambda and main loop have finished on the strand and
\* given up captured_self.
MainDone(i) ==
  /\ L \in implRefs[i]
  /\ LET rel == ReleaseRef(implRefs, implGone, i, L, "strand")
     IN implRefs' = rel.refs /\ implGone' = rel.gone
  /\ UNCHANGED <<streamVars, initVars, xferVars, fnVars, svcVars, impl, life, implQ, teardowns, dropped>>

InitMove == Init /\ sys = "modern" /\ ~onExec

NextMove ==
  \/ \E w \in Wrappers : Construct(w)
  \/ \E w, src \in Wrappers : MoveConstruct(w, src)
  \/ \E dst, src \in Wrappers : MoveAssign(dst, src)
  \/ \E w \in Wrappers : DestroyService(w)
  \/ \E i \in Impls : RunTeardown(i)
  \/ \E i \in Impls : MainDone(i)

SpecMove == InitMove /\ [][NextMove]_vars

\* ------------------------------------------------------------------ init()
\* ModernIOService::init of coro_basic_io_object (std::call_once on
\* init_once) and ModernIOServiceImpl::init of coro_advcd_io_object (no
\* flag), called by several threads on one instance, with the main()
\* coroutines they spawn on the strand.  The streams are left idle.
NoOnceFlag(v) == FALSE

HasOnceFlag(v) == v = "basic"

Spawned == {m \in MainIds : mains[m] # "none"}

\* init() is entered.  std::call_once returns at once when the flag is set,
\* blocks while another thread is inside the callable, and otherwise runs
\* the callable; without a flag the body just runs.
CallInit(t) ==
  /\ initPc[t] = "out"
  /\ initCalls[t] < MaxInitCalls
  /\ IF HasOnceFlag(variant)
       THEN \/ /\ init_once = "done"
               /\ initCalls' = [initCalls EXCEPT ![t] = @ + 1]
               /\ UNCHANGED <<initPc, init_once>>
            \/ /\ init_once = "idle"
               /\ init_once' = "active"
               /\ initPc' = [initPc EXCEPT ![t] = "in"]
               /\ UNCHANGED initCalls
       ELSE /\ initPc' = [initPc EXCEPT ![t] = "in"]
            /\ UNCHANGED <<initCalls, init_once>>
  /\ UNCHANGED <<streamVars, moveVars, xferVars, fnVars, svcVars, variant, mains, mainOps, mainQ,
                 timerWaiter>>

\* The body of init(): (advcd: post the init lambda to the strand, then)
\* co_spawn(strand, main(shared_from_this()), detached); the callable
\* returns and call_once sets the flag.
SpawnMain(t) ==
  /\ initPc[t] = "in"
  /\ LET m == Cardinality(Spawned) + 1
     IN /\ mains' = [mains EXCEPT ![m] = "queued"]
        /\ mainQ' = IF HasOnceFlag(variant) THEN Append(mainQ, m)
                    ELSE Append(Append(mainQ, 0), m)
  /\ initPc' = [initPc EXCEPT ![t] = "out"]
  /\ initCalls' = [initCalls EXCEPT ![t] = @ + 1]
  /\ init_once' = IF HasOnceFlag(variant) THEN "done" ELSE init_once
  /\ UNCHANGED <<streamVars, moveVars, xferVars, fnVars, svcVars, variant, mainOps, timerWaiter>>

\* The strand runs the init lambda (a log line).
RunInitLambda ==
  /\ mainQ # <<>> /\ Head(mainQ) = 0
  /\ mainQ' = Tail(mainQ)
  /\ UNCHANGED <<streamVars, moveVars, xferVars, fnVars, svcVars, variant, initPc, initCalls, init_once,
                 mains, mainOps, timerWaiter>>

\* timer.expires_after(...); co_await timer.async_wait(...) by main() m on
\* queue q: setting the expiry cancels the wait pending on the one timer,
\* whose handler is queued with operation_aborted.
ArmTimer(m, ms, q) ==
  [mains |-> IF timerWaiter = 0 THEN [ms EXCEPT ![m] = "waiting"]
             ELSE [ms EXCEPT ![m] = "waiting", ![timerWaiter] = "cancelled"],
   q |-> IF timerWaiter = 0 THEN q ELSE Append(q, timerWaiter)]

\* The strand resumes main() m: at its start, after its timer wait, or with
\* the exception of a cancelled wait, which ends the coroutine.
MainRun(m) ==
  /\ mainQ # <<>> /\ Head(mainQ) = m
  /\ CASE mains[m] = "cancelled" ->
            /\ mains' = [mains EXCEPT ![m] = "dead"]
            /\ mainQ' = Tail(mainQ)
            /\ UNCHANGED <<mainOps, timerWaiter>>
       [] mains[m] = "queued" /\ 0 < MAX_OPS ->
            LET a == ArmTimer(m, mains, Tail(mainQ))
            IN /\ mains' = a.mains /\ mainQ' = a.q /\ timerWaiter' = m
               /\ UNCHANGED mainOps
       [] mains[m] = "ready" /\ mainOps[m] + 1 < MAX_OPS ->
            LET a == ArmTimer(m, mains, Tail(mainQ))
            IN /\ mains' = a.mains /\ mainQ' = a.q /\ timerWaiter' = m
               /\ mainOps' = [mainOps EXCEPT ![m] = @ + 1]
       [] OTHER ->
            /\ mains' = [mains EXCEPT ![m] = "done"]
            /\ mainQ' = Tail(mainQ)
            /\ mainOps' = [mainOps EXCEPT ![m] =
                             IF mains[m] = "ready" THEN @ + 1 ELSE @]
            /\ UNCHANGED timerWaiter
  /\ UNCHANGED <<streamVars, moveVars, xferVars, fnVars, svcVars, variant, initPc, initCalls, init_once>>

\* The timer expires: the pending wait's handler is queued on the strand.
MainTimerExpire ==
  /\ timerWaiter # 0
  /\ mains' = [mains EXCEPT ![timerWaiter] = "ready"]
  /\ mainQ' = Append(mainQ, timerWaiter)
  /\ timerWaiter' = 0
  /\ UNCHANGED <<streamVars, moveVars, xferVars, fnVars, svcVars, variant, initPc, initCalls, init_once,
                 mainOps>>

InitOfInit ==
  /\ StreamsIdle /\ sys = "modern" /\ ~onExec
  /\ NoWrappers
  /\ \E v \in Variants : NoInitCalls(v)
  /\ NoTransfers
  /\ NoFnCalls
  /\ NoSvcCalls

NextInit ==
  \/ \E t \in InitThreads : CallInit(t)
  \/ \E t \in InitThreads : SpawnMain(t)
  \/ RunInitLambda
  \/ \E m \in MainIds : MainRun(m)
  \/ MainTimerExpire

SpecInit == InitOfInit /\ [][NextInit]_vars

\* ------------------------------------------------------- transfer loops
\* The transfer loops of MyAsyncReadStream and MyAsyncStream run on their
\* own, as the strand task runs them, on sources and cursors of any
\* content: one stream handle on one service, read repeatedly with
\* destinations of every size.
Bytes == {"a", "b", "c", "d"}

Strings(k) == UNION {[1..m -> Bytes] : m \in 0..k}

\* MyAsyncReadStream(exe, producer, start, end) on producedData, or a
\* MyAsyncStream on buffer_out.
InitXfer ==
  /\ StreamsIdle /\ sys = "modern" /\ ~onExec
  /\ NoWrappers
  /\ NoInitCalls("basic")
  /\ NoFnCalls
  /\ NoSvcCalls
  /\ xStream \in {"read", "cread"}
  /\ xData \in Strings(MaxData)
  /\ IF xStream = "read"
       THEN xHead \in 0..(MaxData + 1) /\ xEnd \in 0..(MaxData + 1)
       ELSE xHead = 0 /\ xEnd = 0
  /\ xStart = xHead
  /\ xTotal = 0
  /\ xRes = NoResult

\* MyAsyncReadStream::async_read_some, the strand task's loop with a
\* destination of n bytes.
ApplyReadLoop(n) ==
  /\ xStream = "read"
  /\ LET r == ReadLoop(xHead, 0, n, xEnd, Len(xData))
     IN /\ xHead' = r.head
        /\ xTotal' = xTotal + r.it
        /\ xRes' = [ran |-> TRUE, n |-> n, err |-> r.err, it |-> r.it,
                    dest |-> SubSeq(xData, xHead + 1, xHead + r.it),
                    from |-> xData, head |-> xHead]
  /\ UNCHANGED <<streamVars, moveVars, initVars, fnVars, svcVars, xStream, xData, xEnd,
                 xStart>>

\* MyAsyncStream::async_read_some, the loop on the strand with a
\* destination of n bytes.
ApplyStreamReadLoop(n) ==
  /\ xStream = "cread"
  /\ LET r == StreamReadLoop(xData, 0, n)
     IN /\ xData' = r.rest
        /\ xRes' = [ran |-> TRUE, n |-> n, err |-> r.err, it |-> r.it,
                    dest |-> r.dest, from |-> xData, head |-> xHead]
  /\ UNCHANGED <<streamVars, moveVars, initVars, fnVars, svcVars, xStream, xHead, xEnd,
                 xStart, xTotal>>

NextXfer ==
  \/ \E n \in 0..MaxDest : ApplyReadLoop(n)
  \/ \E n \in 0..MaxDest : ApplyStreamReadLoop(n)

SpecXfer == InitXfer /\ [][NextXfer]_vars

\* ------------------------------------------------------- AsyncFunctions.h
\* async_N_returns_ex_fun / async_N_returns_ec_fun: co_spawn(localPool,
\* body, token), called by mainCo of async_calls.cpp with
\* as_single(bind_executor(exe, use_awaitable)).  Doubles are kept in
\* tenths (x * 2.4 is 24 * x tenths).
FnNames == {"0_ex", "0_ec", "1_ex", "1_ec", "2_ex"}

\* The body of the spawned coroutine: what it throws or co_returns.
BodyAlwaysThrowsOnFailure(f, failure, x) ==
  IF failure
    THEN [thrown |-> TRUE, ec |-> "absent", r1 |-> 0, r2 |-> 0]
    ELSE [thrown |-> FALSE,
          ec |-> IF f \in {"0_ec", "1_ec"} THEN "success" ELSE "absent",
          r1 |-> IF f \in {"1_ex", "1_ec", "2_ex"} THEN 24 * x ELSE 0,
          r2 |-> IF f = "2_ex" THEN 34 * x ELSE 0]

Body(f, failure, x) ==
  CASE f \in {"0_ex", "1_ex", "2_ex"} /\ failure ->
         [thrown |-> TRUE, ec |-> "absent", r1 |-> 0, r2 |-> 0]
    [] f = "0_ex" ->
         [thrown |-> FALSE, ec |-> "absent", r1 |-> 0, r2 |-> 0]
    [] f = "0_ec" ->
         [thrown |-> FALSE,
          ec |-> IF failure THEN "bad_descriptor" ELSE "success",
          r1 |-> 0, r2 |-> 0]
    [] f = "1_ex" ->
         [thrown |-> FALSE, ec |-> "absent", r1 |-> 24 * x, r2 |-> 0]
    [] f = "1_ec" ->
         [thrown |-> FALSE,
          ec |-> IF failure THEN "bad_descriptor" ELSE "success",
          r1 |-> IF failure THEN 0 ELSE 24 * x, r2 |-> 0]
    [] OTHER ->
         [thrown |-> FALSE, ec |-> "absent", r1 |-> 24 * x, r2 |-> 34 * x]

\* T() of the awaitable's value type: error_code{} is success, a double 0.
DefaultValues(f) ==
  [ec |-> IF f \in {"0_ec", "1_ec"} THEN "success" ELSE "absent",
   r1 |-> 0, r2 |-> 0]

\* co_spawn's completion for awaitable<T>: handler(exception_ptr, T); a
\* body that threw is reported by a non-null exception_ptr holding what was
\* thrown (an error_code of bad_descriptor) and a default-constructed T.
CoSpawnCompletionDropsException(out, f) ==
  [ex |-> "null", ec |-> out.ec, r1 |-> out.r1, r2 |-> out.r2]

CoSpawnCompletion(out, f) ==
  IF out.thrown
    THEN [ex |-> "bad_descriptor", ec |-> DefaultValues(f).ec,
          r1 |-> DefaultValues(f).r1, r2 |-> DefaultValues(f).r2]
    ELSE [ex |-> "null", ec |-> out.ec, r1 |-> out.r1, r2 |-> out.r2]

\* as_single over use_awaitable: several completion arguments become one
\* tuple, which co_await returns; a lone exception_ptr (awaitable<void>) is
\* passed through to use_awaitable, which rethrows it when it is not null.
AsSingleRaises(f, ex) == f = "0_ex" /\ ex # "null"

\* mainCo co_awaits fun(failure, x, as_single): the coroutine's start is
\* dispatched to localPool.
FnCall(c, f, failure, x) ==
  /\ fn[c].pc = "idle"
  /\ \A d \in FnCalls : d < c => fn[d].pc # "idle"
  /\ fn' = [fn EXCEPT ![c] = [IdleFn EXCEPT !.f = f, !.failure = failure,
                                            !.x = x, !.pc = "spawned"]]
  /\ poolQ' = Append(poolQ, c)
  /\ UNCHANGED <<streamVars, moveVars, initVars, xferVars, svcVars, awaitQ>>

\* localPool's thread runs the coroutine to its end; co_spawn sends the
\* completion to the handler's executor.
FnPoolRun ==
  /\ poolQ # <<>>
  /\ LET c == Head(poolQ)
         out == Body(fn[c].f, fn[c].failure, fn[c].x)
         comp == CoSpawnCompletion(out, fn[c].f)
     IN /\ fn' = [fn EXCEPT ![c] = [@ EXCEPT !.pc = "completed",
                                            !.thrown = out.thrown,
                                            !.ex = comp.ex, !.ec = comp.ec,
                                            !.r1 = comp.r1, !.r2 = comp.r2]]
        /\ awaitQ' = Append(awaitQ, c)
  /\ poolQ' = Tail(poolQ)
  /\ UNCHANGED <<streamVars, moveVars, initVars, xferVars, svcVars>>

\* The awaiting coroutine is resumed with the result of co_await.
FnDeliver ==
  /\ awaitQ # <<>>
  /\ LET c == Head(awaitQ)
     IN fn' = [fn EXCEPT ![c] = [@ EXCEPT !.pc = "delivered",
                  !.raised = AsSingleRaises(fn[c].f, fn[c].ex)]]
  /\ awaitQ' = Tail(awaitQ)
  /\ UNCHANGED <<streamVars, moveVars, initVars, xferVars, svcVars, poolQ>>

InitCalls ==
  /\ StreamsIdle /\ sys = "modern" /\ ~onExec
  /\ NoWrappers
  /\ NoInitCalls("basic")
  /\ NoTransfers
  /\ NoFnCalls
  /\ NoSvcCalls

NextCalls ==
  \/ \E c \in FnCalls, f \in FnNames, failure \in BOOLEAN, x \in 0..MaxParam :
        FnCall(c, f, failure, x)
  \/ FnPoolRun
  \/ FnDeliver

SpecCalls == InitCalls /\ [][NextCalls]_vars

\* ----------------------------------------------------------- AsyncService
\* async_initiate_function (simple_async_service.cpp) and
\* async_simple_function (simple_async_function.cpp).  The handler's
\* associated executor is the caller's executor when the token is bound to
\* it (use_awaitable in mainCo) and the system executor for a plain lambda
\* or use_future (mainCallback, mainFuture).
SvcFuns == {"initiate", "simple"}

AssocExes == {"caller", "system"}

\* How the function hands the completion to the handler: through
\* asio::post to the associated executor, on the early failure as well as
\* after the work on the strand.
CompletionDirect(failure, assoc) ==
  [via |-> "call", exe |-> IF failure THEN "initiator" ELSE "strand"]

Completion(failure, assoc) == [via |-> "post", exe |-> assoc]

\* The handler runs: on executor exe, inside the initiating call or not.
SvcInvoke(r, exe, inline, ec, v1, v2) ==
  [r EXCEPT !.calls = @ + 1, !.hOn = exe, !.hInline = inline,
            !.hBeforeWork = (~r.failure /\ r.computedOn = "none"),
            !.ec = ec, !.r1 = v1, !.r2 = v2, !.pc = "done"]

\* asio::post(exe, closure) for the closure that completes call c.
PostCompletion(exe, c) ==
  /\ assocQ' = IF exe = "caller" THEN Append(assocQ, c) ELSE assocQ
  /\ sysQ' = IF exe = "system" THEN sysQ \cup {c} ELSE sysQ

\* The initiating function up to its return: on failureSimulator the
\* bad_descriptor completion is posted, otherwise the work is posted to the
\* service strand.
SvcCall(c, fun, failure, assoc, p1, p2) ==
  /\ svc[c].pc = "idle"
  /\ \A d \in SvcCalls : d < c => svc[d].pc # "idle"
  /\ \A d \in SvcCalls : ~svc[d].inCall
  /\ LET r == [IdleSvc EXCEPT !.fun = fun, !.failure = failure,
                              !.assoc = assoc, !.p1 = p1, !.p2 = p2,
                              !.inCall = TRUE]
         how == Completion(TRUE, assoc)
     IN IF failure
          THEN IF how.via = "call"
                 THEN /\ svc' = [svc EXCEPT ![c] =
                           SvcInvoke(r, how.exe, TRUE, "bad_descriptor", 0, 0)]
                      /\ UNCHANGED <<svcStrandQ, assocQ, sysQ>>
                 ELSE /\ svc' = [svc EXCEPT ![c] = [r EXCEPT !.pc = "posted"]]
                      /\ PostCompletion(how.exe, c)
                      /\ UNCHANGED svcStrandQ
          ELSE /\ svc' = [svc EXCEPT ![c] = [r EXCEPT !.pc = "queued"]]
               /\ svcStrandQ' = Append(svcStrandQ, c)
               /\ UNCHANGED <<assocQ, sysQ>>
  /\ UNCHANGED <<streamVars, moveVars, initVars, xferVars, fnVars>>

\* async_initiate returns to the caller.
SvcReturn(c) ==
  /\ svc[c].inCall
  /\ svc' = [svc EXCEPT ![c] = [@ EXCEPT !.inCall = FALSE]]
  /\ UNCHANGED <<streamVars, moveVars, initVars, xferVars, fnVars,
                 svcStrandQ, assocQ, sysQ>>

\* The closure posted to the service strand: the computation, then the
\* post of the completion to workGuard.get_executor().  The uint32_t
\* arithmetic does not wrap for parameters up to MaxParam.
SvcStrandRun ==
  /\ svcStrandQ # <<>>
  /\ LET c == Head(svcStrandQ)
         r == [svc[c] EXCEPT !.computedOn = "strand",
                             !.r1 = svc[c].p1 + svc[c].p2,
                             !.r2 = svc[c].p2 * 2]
         how == Completion(FALSE, svc[c].assoc)
     IN IF how.via = "call"
          THEN /\ svc' = [svc EXCEPT ![c] =
                    SvcInvoke(r, how.exe, FALSE, "success", r.r1, r.r2)]
               /\ UNCHANGED <<assocQ, sysQ>>
          ELSE /\ svc' = [svc EXCEPT ![c] = [r EXCEPT !.pc = "posted"]]
               /\ PostCompletion(how.exe, c)
  /\ svcStrandQ' = Tail(svcStrandQ)
  /\ UNCHANGED <<streamVars, moveVars, initVars, xferVars, fnVars>>

\* What a posted completion closure passes to the handler.
PostedResult(r) ==
  IF r.failure THEN [ec |-> "bad_descriptor", r1 |-> 0, r2 |-> 0]
               ELSE [ec |-> "success", r1 |-> r.r1, r2 |-> r.r2]

\* The caller's executor runs the next completion closure; its thread is
\* not inside an initiating call then.
SvcRunCaller ==
  /\ assocQ # <<>>
  /\ \A d \in SvcCalls : ~svc[d].inCall
  /\ LET c == Head(assocQ)
         v == PostedResult(svc[c])
     IN svc' = [svc EXCEPT ![c] =
                   SvcInvoke(svc[c], "caller", FALSE, v.ec, v.r1, v.r2)]
  /\ assocQ' = Tail(assocQ)
  /\ UNCHANGED <<streamVars, moveVars, initVars, xferVars, fnVars,
                 svcStrandQ, sysQ>>

\* A thread of the system executor runs a completion closure, at any time
\* after the post.
SvcRunSystem(c) ==
  /\ c \in sysQ
  /\ LET v == PostedResult(svc[c])
     IN svc' = [svc EXCEPT ![c] =
                   SvcInvoke(svc[c], "system", FALSE, v.ec, v.r1, v.r2)]
  /\ sysQ' = sysQ \ {c}
  /\ UNCHANGED <<streamVars, moveVars, initVars, xferVars, fnVars,
                 svcStrandQ, assocQ>>

NextService ==
  \/ \E c \in SvcCalls, fun \in SvcFuns, failure \in BOOLEAN,
        assoc \in AssocExes, p1 \in 0..MaxParam, p2 \in 0..MaxParam :
        SvcCall(c, fun, failure, assoc, p1, p2)
  \/ \E c \in SvcCalls : SvcReturn(c)
  \/ SvcStrandRun
  \/ SvcRunCaller
  \/ \E c \in SvcCalls : SvcRunSystem(c)

SpecService == InitCalls /\ [][NextService]_vars

\* ================================================================ claims
InStrandQ(t) == \E i \in 1..Len(strandQ) : strandQ[i] = t

Issued(o) == ops[o].pc # "idle"

\* C1: for one ModernIOServiceImpl, at no moment are two buffer-access
\* sections (a transfer step of a stream or client operation, an iteration
\* of the main loop) being executed at once; a section that has begun ends
\* before the next one begins.
C1_OneSectionAtATime ==
  sys = "modern" => Cardinality(inSection) <= 1

\* C1 witness: an operation's transfer step is being executed while the
\* next main-loop iteration and another operation wait on the strand.
C1_Witness ==
  /\ sys = "modern"
  /\ \E o \in Calls : OpTask(o) \in inSection
  /\ InStrandQ(LoopTask)
  /\ \E p \in Calls : InStrandQ(OpTask(p))

\* C2: the completion handler of an operation is invoked at most once on
\* every path, and on the live path not before the operation's transfer
\* step has finished.
C2_HandlerAtMostOnce ==
  \A o \in Calls : ops[o].calls <= 1 /\ ~ops[o].hEarly

\* C2 witness: one operation has completed on the live path after its
\* transfer and another one on the dead-reference path, each with exactly
\* one handler invocation.
C2_Witness ==
  \E o, p \in Calls :
    /\ ops[o].calls = 1 /\ ops[o].live /\ ops[o].xfer
    /\ ops[p].calls = 1 /\ ops[p].gone /\ ops[p].err = "bad_descriptor"

\* C3 (as claimed): under fair scheduling every initiated operation
\* eventually has its completion handler invoked.
C3_EveryOperationCompletes ==
  \A o \in Calls : Issued(o) ~> (ops[o].calls > 0)

\* C4: whenever a completion handler runs, for every operation and outcome,
\* it runs on the caller-side executor and not on the service's strand.
C4_HandlerOnCallerExecutor ==
  \A o \in Calls : ops[o].calls > 0 => ops[o].hOn = "caller"

\* C4 witness: handlers have run for a transfer that ended in an error
\* outcome and for one that ended at eof.
C4_Witness ==
  \E o, p \in Calls :
    /\ ops[o].calls = 1 /\ ops[o].xfer /\ ops[o].err = "eof"
    /\ ops[p].calls = 1 /\ ops[p].xfer
    /\ ops[p].err \in {"no_buffer_space", "would_block", "success"}

\* What C5 says of an operation o of a Producer / Consumer stream that found
\* its impl gone, apart from when the handler may run.
C5_DeadPath(o) ==
  /\ ~ops[o].live /\ ~ops[o].xfer
  /\ OpTask(o) \notin inSection /\ ~InStrandQ(OpTask(o))
  /\ ops[o].calls > 0 => ops[o].err = "bad_descriptor" /\ ops[o].it = 0
  /\ \A p \in Calls : p > o /\ Issued(p) => ops[p].gone

\* C5 (as claimed): for async_read_some / async_write_some of the Producer
\* and Consumer streams, when the impl no longer exists at initiation the
\* operation completes with bad_descriptor and 0 bytes, the handler is
\* invoked only after the initiating call has returned, nothing is
\* submitted to the strand, and the same holds for every later call.
C5_Original ==
  \A o \in Calls :
    ops[o].kind \in {"read", "write"} /\ ops[o].gone =>
      C5_DeadPath(o) /\ ~ops[o].hInCall

\* C5 (amended): as claimed, except that the handler is never invoked by
\* the initiating call itself (it is posted to the handle's executor); it
\* runs only after the call has returned when the call is made from the
\* thread that runs that executor.
C5_Amended ==
  \A o \in Calls :
    ops[o].kind \in {"read", "write"} /\ ops[o].gone =>
      /\ C5_DeadPath(o)
      /\ ~ops[o].hInline
      /\ onExec => ~ops[o].hInCall

\* C5 witness: two successive calls on a handle whose impl is gone have
\* both completed with bad_descriptor, the calls made from the executor's
\* own thread.
C5_Witness ==
  /\ onExec
  /\ \E o, p \in Calls :
       /\ o < p
       /\ ops[o].kind \in {"read", "write"}
       /\ ops[o].gone /\ ops[o].calls = 1 /\ ~ops[o].inCall
       /\ ops[p].gone /\ ops[p].calls = 1 /\ ops[p].err = "bad_descriptor"

\* C6 (as claimed): for the coroutine-based MyAsyncStream operations and
\* async_buffer_op_coro, when the service no longer exists the completion
\* handler is never invoked inside the initiating call, even when the call
\* is made on the completion executor.
C6_NeverInsideTheCall ==
  \A o \in Calls : ops[o].kind \in CoroKinds => ~ops[o].hInline

\* C7 (as claimed): the destructor of ModernIOServiceImpl runs on the
\* service's strand, never on the caller's executor or on the thread that
\* destroyed the wrapper.
C7_DestroyedOnStrand ==
  sys = "modern" => destroyedOn \in {"none", "strand"}

\* C8 (as claimed): ConsumerImpl's destructor runs only on its strand; the
\* last strong reference is never released on the caller's thread.
C8_ConsumerDestroyedOnStrand ==
  sys = "consumer" => destroyedOn \in {"none", "strand"}

\* C9 (as claimed): if the Producer is destroyed while the background loop
\* has iterations left, the loop still performs them all (up to MAX_MODS)
\* and only afterwards is the ProducerImpl destroyed, on its strand.
C9_LoopCompletesBeforeDestruction ==
  sys = "producer" /\ destroyedOn # "none" =>
    loopOps = MAX_MODS /\ destroyedOn = "strand"

NormalResults == {"eof", "no_buffer_space", "would_block", "success"}

\* C11: once an operation has resolved the service (lock() succeeded), the
\* impl is not destroyed before that operation's transfer step has finished,
\* even when the wrapper is destroyed and its teardown task runs in
\* between; its handler is then called with the transfer's result, never
\* with bad_descriptor.
C11_ResolvedOperationKeepsImpl ==
  \A o \in Calls :
    ops[o].live =>
      /\ ~ops[o].xfer => ImplAlive /\ destroyedOn = "none"
      /\ ops[o].calls > 0 => ops[o].xfer /\ ops[o].err \in NormalResults

\* C11 witness: the wrapper is gone and its teardown task has run, and an
\* operation that resolved the impl and has not transferred yet holds the
\* only reference left.
C11_Witness ==
  /\ wrapper = "destroyed"
  /\ ~InStrandQ(TeardownTask) /\ TeardownTask \notin inSection
  /\ \E o \in Calls :
       /\ ops[o].live /\ ~ops[o].xfer /\ ops[o].pc = "queued"
       /\ refs = {TaskRef(o)}

\* The operation is past its last step that goes through the handle.
PastHandleUse(op) ==
  /\ op.pc \in {"queued", "running", "posted", "done"}
  /\ ~UsesHandle(op.kind, "transfer") \/ op.xfer \/ ~op.live

CompletionQueued(o) ==
  \E i \in 1..Len(callerQ) : callerQ[i][1] = o /\ callerQ[i][2] # "spawn"

\* C12 (as claimed): after the stream handle is destroyed with an operation
\* in flight, no remaining step of the operation reads or writes a field of
\* the handle.
C12_Original ==
  \A o \in Calls : ~ops[o].uaf

\* C12 (amended): once an operation is past its last step that uses the
\* handle (the strand task for MyAsyncReadStream / MyAsyncWriteStream, the
\* coroutine's lock() for MyAsyncStream), destroying the handle is safe: no
\* later step of the operation goes through the handle, and its completion
\* stays queued on the caller's executor until the handler is called.
C12_Amended ==
  [][\A o \in Calls :
       handle = "destroyed" /\ PastHandleUse(ops[o]) =>
         /\ ops'[o].uaf = ops[o].uaf
         /\ CompletionQueued(o) =>
              (CompletionQueued(o))' \/ ops'[o].calls = ops[o].calls + 1]_vars

\* C12 witness: the handle was destroyed while an operation of a stream was
\* in flight, the operation has done its transfer without touching the dead
\* handle and its handler has been called.
C12_Witness ==
  /\ handle = "destroyed"
  /\ \E o \in Calls :
       /\ ops[o].kind \in {"read", "write", "cread", "cwrite"}
       /\ ops[o].live /\ ops[o].xfer /\ ~ops[o].uaf /\ ops[o].calls = 1
       /\ \E p \in Calls : ops[p].uaf

\* C13: from the moment an operation has resolved the service until its
\* completion has been submitted to the caller's executor, and on until the
\* handler is called, the caller's executor has outstanding work of that
\* operation: a work guard it holds or its queued completion.
C13_CallerExecutorHasWork ==
  \A o \in Calls :
    ops[o].live /\ ops[o].pc \in {"queued", "running", "posted"} =>
      ops[o].guard \/ CompletionQueued(o)

\* C13 witness: an operation's transfer is being executed on the strand
\* while nothing is queued on the caller's executor: only the work guard
\* keeps the caller's run loop from returning.
C13_Witness ==
  \E o \in Calls :
    /\ ops[o].kind \in CallbackKinds
    /\ ops[o].live /\ ops[o].pc = "running" /\ ops[o].guard
    /\ callerQ = <<>>
    /\ \A p \in Calls : p # o => ~ops[p].guard

\* Main loops that have started and not ended.
MainsRunning == {m \in MainIds : mains[m] \in {"waiting", "ready"}}

\* C14: init() of coro_basic_io_object is idempotent: for any number of
\* calls on one instance, also concurrent ones from different threads,
\* exactly one main() coroutine is spawned on the strand.
C14_InitSpawnsOneMain ==
  variant = "basic" =>
    /\ Cardinality(Spawned) <= 1
    /\ (\E t \in InitThreads : initCalls[t] > 0) => Cardinality(Spawned) = 1

\* C14 witness: two threads have each returned from init() twice and one
\* main() coroutine exists, which has started.
C14_Witness ==
  /\ variant = "basic"
  /\ \A t \in InitThreads : initCalls[t] = MaxInitCalls
  /\ Cardinality(Spawned) = 1
  /\ MainsRunning # {}

\* C15 (as claimed): calling init() of coro_advcd_io_object's
\* ModernIOServiceImpl more than once on one instance never results in two
\* main loops running at once on that instance.
C15_InitNeverStartsTwoLoops ==
  variant = "advcd" => Cardinality(MainsRunning) <= 1

\* The producer's loop has an iteration scheduled: the timer is pending or
\* its handler is queued or running on the strand.
LoopScheduled == timer \/ InStrandQ(LoopTask) \/ LoopTask \in inSection

\* C16 (as claimed): ProducerImpl's background loop holds a strong
\* self-reference across every iteration scheduled on the timer, and once
\* it schedules nothing further it has performed exactly MAX_MODS
\* modifications and holds no self-reference.
C16_LoopRunsAllModificationsThenReleases ==
  sys = "producer" /\ ~aborted =>
    /\ timer => L \in refs
    /\ ~LoopScheduled => loopOps = MAX_MODS /\ L \notin refs

\* C17: a MyAsyncReadStream::async_read_some with a non-empty destination
\* whose transfer step finds no byte at the cursor (producedData.size() <=
\* head, head <= end) yields would_block with 0 bytes and leaves head (and
\* the producer's data) as they were; an operation whose transfer step is
\* over is never queued or run again and keeps its result.
C17_NoByteAtCursorWouldBlock ==
  [][\A o \in Calls :
       /\ ( /\ ops[o].kind = "read" /\ ops[o].n > 0 /\ handle = "alive"
            /\ OpTask(o) \in inSection /\ OpTask(o) \notin inSection'
            /\ PRODUCED_SIZE <= head /\ head <= end )
          => /\ ops'[o].xfer
             /\ ops'[o].err = "would_block" /\ ops'[o].it = 0
             /\ head' = head
       /\ (ops[o].kind = "read" /\ ops[o].xfer)
          => /\ ~InStrandQ(OpTask(o))' /\ OpTask(o) \notin inSection'
             /\ ops'[o].xfer
             /\ ops'[o].err = ops[o].err /\ ops'[o].it = ops[o].it
             /\ ops'[o].calls <= 1
    ]_vars

\* C17 witness: a read with a non-empty destination was completed with
\* would_block and 0 bytes at a cursor that is within the stream's range
\* and past the producer's data.
C17_Witness ==
  \E o \in Calls :
    /\ ops[o].kind = "read" /\ ops[o].n > 0
    /\ ops[o].calls = 1 /\ ops[o].err = "would_block" /\ ops[o].it = 0
    /\ head = PRODUCED_SIZE /\ head <= end

\* C18 (as claimed): a MyAsyncStream::async_read_some with a non-empty
\* destination whose transfer step found buffer_out empty (nothing was
\* moved) while the main loop still has iterations to run yields
\* would_block with 0 bytes.
C18_EmptyBufferWouldBlock ==
  \A o \in Calls :
    ( /\ ops[o].kind = "cread" /\ ops[o].n > 0
      /\ ops[o].xfer /\ ops[o].it = 0
      /\ loopOps < MAX_OPS )
    => ops[o].err = "would_block"

\* C19: MyAsyncStream::async_read_some with a destination of n bytes on a
\* buffer_out of m > n bytes yields no_buffer_space with n transferred; the
\* destination holds the first n bytes of buffer_out in order and
\* buffer_out keeps exactly the other m - n bytes.
C19_ShortDestinationTakesPrefix ==
  (xStream = "cread" /\ xRes.ran /\ Len(xRes.from) > xRes.n) =>
    /\ xRes.err = "no_buffer_space"
    /\ xRes.it = xRes.n
    /\ xRes.dest = SubSeq(xRes.from, 1, xRes.n)
    /\ xData = SubSeq(xRes.from, xRes.n + 1, Len(xRes.from))

\* C19 witness: "abcd" read with a 2-byte destination gave "ab" and left
\* "cd".
C19_Witness ==
  /\ xStream = "cread" /\ xRes.ran
  /\ xRes.from = <<"a", "b", "c", "d">> /\ xRes.n = 2
  /\ xRes.dest = <<"a", "b">>
  /\ xData = <<"c", "d">>

ReadLoopTie ==
  /\ xStream = "read" /\ xRes.ran
  /\ xRes.it = xRes.n
  /\ Len(xRes.from) <= xHead

\* C21 (as claimed): when MyAsyncReadStream's loop is entered with the
\* destination full and no byte at the cursor, the result is eof if the
\* range is exhausted (head > end) and would_block otherwise.
C21_Original ==
  ReadLoopTie =>
    xRes.err = IF xHead > xEnd THEN "eof" ELSE "would_block"

\* C21 (amended): in that case the result is eof if head > end and
\* no_buffer_space otherwise: the destination is tested before the source.
C21_Amended ==
  ReadLoopTie =>
    xRes.err = IF xHead > xEnd THEN "eof" ELSE "no_buffer_space"

\* C21 witness: a read that copied bytes until the destination was full and
\* the producer's data used up, inside the range.
C21_Witness ==
  /\ ReadLoopTie /\ xRes.n > 0 /\ xHead <= xEnd
  /\ xRes.err = "no_buffer_space"

\* C22: every run of MyAsyncReadStream's loop ends with exactly one of
\* no_buffer_space, would_block, eof (never fault), decided by the state at
\* loop exit: eof iff head > end; otherwise no_buffer_space iff the
\* destination is full; otherwise would_block, and then
\* producedData.size() <= head.
C22_ExitStateDecidesResult ==
  (xStream = "read" /\ xRes.ran) =>
    /\ xRes.err \in {"no_buffer_space", "would_block", "eof"}
    /\ xRes.err = "eof" <=> xHead > xEnd
    /\ xHead <= xEnd => (xRes.err = "no_buffer_space" <=> xRes.it = xRes.n)
    /\ xRes.err = "would_block" => Len(xRes.from) <= xHead
    /\ xHead = xRes.head + xRes.it

\* C22 witness: a read that copied bytes and then ended with would_block.
C22_Witness ==
  /\ xStream = "read" /\ xRes.ran
  /\ xRes.err = "would_block" /\ xRes.it > 0 /\ xRes.it < xRes.n

\* C24 (as claimed): a read with a zero-length destination ends with
\* malformed_request and 0 bytes, source and cursor unchanged.
C24_Original ==
  (xStream # "none" /\ xRes.ran /\ xRes.n = 0) =>
    /\ xRes.err = "malformed_request"
    /\ xRes.it = 0 /\ xData = xRes.from /\ xHead = xRes.head

\* C24 (amended): a read with a zero-length destination transfers 0 bytes
\* and leaves source and cursor unchanged; its result is no_buffer_space
\* while something is left to read (MyAsyncReadStream: head <= end,
\* MyAsyncStream: buffer_out not empty) and eof otherwise.
C24_Amended ==
  (xStream # "none" /\ xRes.ran /\ xRes.n = 0) =>
    /\ xRes.err = IF (xStream = "read" /\ xRes.head <= xEnd)
                     \/ (xStream = "cread" /\ xRes.from # <<>>)
                  THEN "no_buffer_space" ELSE "eof"
    /\ xRes.it = 0 /\ xData = xRes.from /\ xHead = xRes.head

\* C24 witness: a zero-length read of a non-empty buffer_out.
C24_Witness ==
  /\ xStream = "cread" /\ xRes.ran /\ xRes.n = 0
  /\ Len(xRes.from) = MaxData /\ xData = xRes.from
  /\ xRes.err = "no_buffer_space"

\* C23 (as claimed): end-of-data is terminal for a stream handle: once a
\* read on it has been completed with eof, the transfer step of a read
\* issued after that one on the same handle moves no byte.
C23_EndOfDataIsTerminal ==
  [][\A o1, o2 \in Calls :
       ( /\ o1 < o2
         /\ ops[o1].kind \in {"read", "cread"}
         /\ ops[o1].calls = 1 /\ ops[o1].err = "eof"
         /\ ops[o2].kind = ops[o1].kind
         /\ ~ops[o2].xfer /\ ops'[o2].xfer )
       => ops'[o2].it = 0
    ]_vars

\* C25 (as claimed): after the Producer (Consumer) object is destroyed, an
\* async_read_some (async_write_some) issued on a stream made from it
\* takes the bad_descriptor path, whatever the teardown task and the
\* background loop have done by then.
C25_ReadAfterDestroyIsBadDescriptor ==
  [][\A o \in Calls :
       ( /\ sys \in {"producer", "consumer"}
         /\ wrapper # "alive"
         /\ ops[o].pc = "idle" /\ ops'[o].pc # "idle" )
       => ~ops'[o].live /\ ops'[o].pc = "posted"
    ]_vars

\* The transfer step of operation o is the step being taken.
TransferStepOf(o) == ~ops[o].xfer /\ ops'[o].xfer

IsPrefix(a, b) == Len(a) <= Len(b) /\ a = SubSeq(b, 1, Len(a))

\* C26: operations initiated one after the other from the caller's
\* executor on one service have their transfer steps in initiation order;
\* a read takes exactly the bytes at the front of the stream when its
\* transfer step runs (MyAsyncReadStream: from head on, MyAsyncStream: the
\* front of buffer_out) and nothing else moves the front, so the second of
\* two reads gets the bytes right after the first one's.
C26_TransfersInInitiationOrder ==
  [][/\ \A o1, o2 \in Calls :
          (onExec /\ o1 < o2 /\ ops'[o1].live /\ ops'[o2].live
             /\ ops'[o2].xfer) => ops'[o1].xfer
     /\ \A o \in Calls :
          (TransferStepOf(o) /\ ops[o].kind = "read")
            => head' = head + ops'[o].it
     /\ \A o \in Calls :
          (TransferStepOf(o) /\ ops[o].kind = "cread")
            => buffer_out' = EraseFront(buffer_out, ops'[o].it)
     /\ (\A o \in Calls : ~TransferStepOf(o))
          => head' = head /\ IsPrefix(buffer_out, buffer_out')
    ]_vars

\* C26 witness: two reads of MyAsyncStream issued from the caller's
\* executor have both moved a byte.
C26_Witness ==
  /\ onExec
  /\ \A o \in {1, 2} :
       ops[o].kind = "cread" /\ ops[o].xfer /\ ops[o].it = 1

\* C27 (as claimed): async_read_some and async_write_some capture the
\* caller-supplied buffer descriptor by value: no transfer step running on
\* the strand refers to an object of the caller's call frame.
C27_BufferCapturedByValue ==
  \A o \in Calls :
    (OpTask(o) \in inSection /\ ops[o].kind \in {"read", "write"})
      => CapturesBufferByValue(ops[o].kind)

\* C28: async_0_returns_ec_fun and async_1_returns_ec_fun never raise: under
\* as_single the exception slot is null for failure false and true; the
\* error code is success without failure and bad_descriptor with it (and
\* the value of async_1_returns_ec_fun is then 0).
C28_EcFunctionsNeverRaise ==
  \A c \in FnCalls :
    (fn[c].pc = "delivered" /\ fn[c].f \in {"0_ec", "1_ec"}) =>
      /\ fn[c].ex = "null" /\ ~fn[c].raised /\ ~fn[c].thrown
      /\ fn[c].ec = IF fn[c].failure THEN "bad_descriptor" ELSE "success"
      /\ fn[c].failure => fn[c].r1 = 0
      /\ (fn[c].f = "1_ec" /\ ~fn[c].failure) => fn[c].r1 = 24 * fn[c].x

\* C28 witness: both functions have delivered a failure.
C28_Witness ==
  /\ fn[1].pc = "delivered" /\ fn[1].f = "0_ec" /\ fn[1].failure
  /\ fn[2].pc = "delivered" /\ fn[2].f = "1_ec" /\ fn[2].failure
  /\ fn[2].ec = "bad_descriptor"

\* C29: async_1_returns_ex_fun and async_2_returns_ex_fun deliver under
\* as_single a null exception with the computed values when failure is
\* false, and a non-null exception carrying bad_descriptor with zero values
\* when it is true; no completion of any function carries both an
\* exception and an error value.
C29_ExFunctionsDeliverExceptionOrResult ==
  \A c \in FnCalls :
    fn[c].pc = "delivered" =>
      /\ fn[c].f \in {"1_ex", "2_ex"} =>
           /\ ~fn[c].raised
           /\ IF fn[c].failure
                THEN fn[c].ex = "bad_descriptor"
                     /\ fn[c].r1 = 0 /\ fn[c].r2 = 0
                ELSE fn[c].ex = "null"
                     /\ fn[c].r1 = 24 * fn[c].x
                     /\ (fn[c].f = "2_ex" => fn[c].r2 = 34 * fn[c].x)
      /\ ~(fn[c].ex # "null" /\ fn[c].ec = "bad_descriptor")

\* C29 witness: one failing and one succeeding call have been delivered.
C29_Witness ==
  /\ fn[1].pc = "delivered" /\ fn[1].f = "1_ex" /\ fn[1].failure
  /\ fn[1].ex = "bad_descriptor"
  /\ fn[2].pc = "delivered" /\ fn[2].f = "2_ex" /\ ~fn[2].failure
  /\ fn[2].x = MaxParam /\ fn[2].r2 = 34 * MaxParam

\* C30: async_initiate_function and async_simple_function never invoke the
\* handler inside the initiating call, also when failureSimulator is true:
\* the completion is posted to the handler's associated executor.  On
\* success the computation has run on the service strand before the handler
\* runs, and the handler runs on the associated executor, never on the
\* service strand.
C30_HandlerPostedToAssociatedExecutor ==
  \A c \in SvcCalls :
    /\ svc[c].calls <= 1
    /\ svc[c].pc = "posted" => svc[c].calls = 0
    /\ svc[c].calls = 1 =>
         /\ ~svc[c].hInline
         /\ svc[c].hOn = svc[c].assoc
         /\ svc[c].hOn # "strand"
         /\ IF svc[c].failure
              THEN svc[c].computedOn = "none"
                   /\ svc[c].ec = "bad_descriptor"
              ELSE svc[c].computedOn = "strand" /\ ~svc[c].hBeforeWork
                   /\ svc[c].ec = "success"
                   /\ svc[c].r1 = svc[c].p1 + svc[c].p2
                   /\ svc[c].r2 = svc[c].p2 * 2

\* C30 witness: a failing call of one function and a succeeding call of
\* the other have both completed, one on each kind of associated executor.
C30_Witness ==
  /\ svc[1].calls = 1 /\ svc[1].failure /\ svc[1].fun = "simple"
  /\ svc[1].assoc = "system" /\ svc[1].hOn = "system"
  /\ svc[2].calls = 1 /\ ~svc[2].failure /\ svc[2].fun = "initiate"
  /\ svc[2].assoc = "caller" /\ svc[2].hOn = "caller"
  /\ svc[2].computedOn = "strand" /\ svc[2].r1 = 2 * MaxParam

\* The consumption loop's pending steps: loop tasks waiting on or run by
\* the strand, and the outstanding timer wait.
LoopStepsPending ==
  Cardinality({i \in 1..Len(strandQ) : strandQ[i] = LoopTask})
    + (IF LoopTask \in inSection THEN 1 ELSE 0)
    + (IF timer THEN 1 ELSE 0)

\* C31: ConsumerImpl has at most one consumption loop active (one posted
\* loop step or one outstanding timer wait) for every interleaving of
\* writes, the constructor's ensureConsuming and loop steps, and consuming
\* is true exactly while such a step or wait is pending.
C31_OneConsumptionLoop ==
  sys = "consumer" =>
    /\ LoopStepsPending <= 1
    /\ consuming <=> LoopStepsPending = 1

\* C31 witness: the loop had stopped on the empty buffer and a write has
\* started it again, a second write found it running.
C31_Witness ==
  /\ sys = "consumer" /\ consuming
  /\ ops[1].kind = "write" /\ ops[1].n = 1 /\ ops[1].xfer
  /\ ops[2].kind = "write" /\ ops[2].xfer
  /\ Len(buffer_in) = 1 + ops[2].n
  /\ InStrandQ(LoopTask)

\* C32: every byte a write appended to consumedData is eventually consumed
\* by the consumption loop under fair scheduling, one byte per loop step and
\* in the order written, also when the Consumer is destroyed before the data
\* is drained and when the write arrives after the loop had stopped.  The
\* process ends early only when a task runs through a destroyed stream
\* handle.
C32_WrittenBytesAreConsumedInOrder ==
  /\ [][sys = "consumer" =>
          \/ IsPrefix(buffer_in, buffer_in')
          \/ buffer_in # <<>> /\ buffer_in' = Tail(buffer_in)]_vars
  /\ [](sys = "consumer" /\ aborted => handle = "destroyed")
  /\ (sys = "consumer" /\ buffer_in # <<>>) ~> (buffer_in = <<>> \/ aborted)

\* C32 witness: the write has completed, the Consumer is destroyed and its
\* teardown task has run, and the written bytes are still in the buffer.
C32_Witness ==
  /\ sys = "consumer" /\ wrapper = "destroyed" /\ ~aborted
  /\ refs = {L}
  /\ ops[1].kind = "write" /\ ops[1].calls = 1
  /\ ops[2].kind = "write" /\ ops[2].calls = 1
  /\ Len(buffer_in) = 2

\* C33: async_write_some on a live service transfers the entire source:
\* the transferred count is the source's length, the bytes are appended to
\* the tail of consumedData / buffer_in in source order, the bytes already
\* there keep their content and order, and buffer_out is untouched.
C33_WriteAppendsWholeSource ==
  [][\A o \in Calls :
       (TransferStepOf(o) /\ ops[o].kind \in {"write", "cwrite"}) =>
         /\ ops'[o].it = ops[o].n
         /\ buffer_in' = buffer_in \o SourceBytes(o, ops[o].n)
         /\ buffer_out' = buffer_out]_vars

\* C33 witness: a two-byte write has been appended behind the byte of an
\* earlier write.
C33_Witness ==
  /\ sys = "consumer"
  /\ ops[1].kind = "write" /\ ops[1].n = 1 /\ ops[1].xfer
  /\ ops[2].kind = "write" /\ ops[2].n = 2 /\ ops[2].xfer /\ ops[2].it = 2
  /\ buffer_in = SourceBytes(1, 1) \o SourceBytes(2, 2)

\* An operation holds a strong reference to the impl.
OperationInFlight == \E o \in Calls : {TaskRef(o), LocalRef(o)} \cap refs # {}

ProducedStream == [i \in 1..produced |-> i]

\* The bytes MyAsyncStream reads have put into their destinations.
Delivered(o) == IF ops[o].kind = "cread" THEN ops[o].data ELSE <<>>

NoClearIssued == \A o \in Calls : ops[o].clr = "none"

\* C35: on a ModernIOServiceImpl on which no buffer-clearing operation is
\* issued, the bytes delivered by all reads, in the order of their transfer
\* steps, followed by buffer_out, are everything main() has produced: each
\* read takes exactly the front of buffer_out, and nothing else removes
\* from it.
C35_ReadsPartitionProducedStream ==
  /\ []((sys = "modern" /\ NoClearIssued) =>
          \/ Delivered(1) \o Delivered(2) \o buffer_out = ProducedStream
          \/ Delivered(2) \o Delivered(1) \o buffer_out = ProducedStream)
  /\ [][(sys = "modern" /\ NoClearIssued') =>
          /\ \A o \in Calls :
               (TransferStepOf(o) /\ ops[o].kind = "cread") =>
                 Delivered(o)' \o buffer_out' = buffer_out
          /\ (\A o \in Calls : ~(TransferStepOf(o) /\ ops[o].kind = "cread"))
               => IsPrefix(buffer_out, buffer_out')]_vars

\* C35 witness: two reads have each delivered a byte, one before and one
\* after a production, and bytes remain in buffer_out.
C35_Witness ==
  /\ sys = "modern" /\ NoClearIssued
  /\ ops[1].kind = "cread" /\ ops[1].data = <<1>>
  /\ ops[2].kind = "cread" /\ ops[2].data = <<2>>
  /\ produced = 2 * GEN_LEN
  /\ Len(buffer_out) = 2 * GEN_LEN - 2

\* C36: for a MyAsyncReadStream constructed with start <= end + 1, after
\* any sequence of reads: head never decreases, a read advances head by
\* exactly its transferred count, head never exceeds end + 1, producedData
\* is only read below its size, the handle delivers at most
\* end - start + 1 bytes in all, and reads never modify producedData.
C36_CursorStaysInRange ==
  /\ []((xStream = "read" /\ xStart <= xEnd + 1) =>
          /\ xHead <= xEnd + 1
          /\ xHead = xStart + xTotal
          /\ xTotal <= xEnd - xStart + 1
          /\ xRes.ran =>
               /\ xHead = xRes.head + xRes.it
               /\ xRes.it > 0 => xHead <= Len(xRes.from)
               /\ xRes.dest = SubSeq(xRes.from, xRes.head + 1, xHead))
  /\ [][xStream = "read" => xHead' >= xHead /\ xData' = xData]_vars

\* C36 witness: the handle has delivered its whole range in more than one
\* read.
C36_Witness ==
  /\ xStream = "read" /\ xStart = 1 /\ xEnd = 3 /\ Len(xData) = 4
  /\ xRes.ran /\ xRes.head = 2 /\ xRes.it = 2 /\ xRes.err = "eof"
  /\ xTotal = 3 /\ xHead = xEnd + 1

\* C37: async_buffer_op_initiate reports the sizes buffer_in and buffer_out
\* had immediately before its strand step, empties in that step exactly the
\* buffers whose clear flag is set and leaves the others unchanged; with
\* both flags false the step changes no service state.
C37_BufferOpReportsAndClears ==
  /\ [][\A o \in Calls :
          (TransferStepOf(o) /\ ops[o].kind = "bop_init") =>
            /\ ops'[o].it = Len(buffer_in) /\ ops'[o].it2 = Len(buffer_out)
            /\ buffer_in' = IF ops[o].clr \in {"in", "both"}
                              THEN <<>> ELSE buffer_in
            /\ buffer_out' = IF ops[o].clr \in {"out", "both"}
                               THEN <<>> ELSE buffer_out
            /\ UNCHANGED <<produced, loopOps, timer, consuming, head, end>>]_vars
  /\ [][\A o \in Calls :
          (ops[o].kind = "bop_init" /\ ops[o].xfer
             /\ ops[o].calls = 0 /\ ops'[o].calls = 1) =>
            /\ ops'[o].err = "success"
            /\ ops'[o].it = ops[o].it /\ ops'[o].it2 = ops[o].it2]_vars

\* C37 witness: the operation found both buffers non-empty, cleared
\* buffer_in only, and its handler has received the two sizes.
C37_Witness ==
  \E o \in Calls :
    /\ ops[o].kind = "bop_init" /\ ops[o].clr = "in" /\ ops[o].calls = 1
    /\ ops[o].it > 0 /\ ops[o].it2 > 0
    /\ Len(buffer_out) >= ops[o].it2

\* What the caller can observe of a completed buffer operation: the values
\* passed to the handler, the executor the handler ran on, and whether it
\* ran before the initiating call returned.
Observed(o) ==
  [err |-> ops[o].err, sizeIn |-> ops[o].it, sizeOut |-> ops[o].it2,
   on |-> ops[o].hOn, inCall |-> ops[o].hInline]

\* C38: async_buffer_op_initiate and async_buffer_op_coro are
\* observationally equivalent: with a dead reference both deliver the same
\* values on the same executor and on the same side of the initiating
\* call's return; on a live service both deliver on the same executor
\* after the call returned, and their strand steps report and clear alike.
C38_BufferOpsEquivalent ==
  /\ [](\A o1, o2 \in Calls :
          (/\ ops[o1].kind = "bop_init" /\ ops[o2].kind = "bop_coro"
           /\ ops[o1].calls = 1 /\ ops[o2].calls = 1
           /\ ops[o1].live = ops[o2].live) =>
            /\ Observed(o1).on = Observed(o2).on
            /\ Observed(o1).inCall = Observed(o2).inCall
            /\ ~ops[o1].live => Observed(o1) = Observed(o2))
  /\ [][\A o \in Calls :
          (TransferStepOf(o) /\ ops[o].kind \in {"bop_init", "bop_coro"}) =>
            /\ ops'[o].it = Len(buffer_in) /\ ops'[o].it2 = Len(buffer_out)
            /\ buffer_in' = Cleared(buffer_in, ops[o].clr \in {"in", "both"})
            /\ buffer_out' = Cleared(buffer_out,
                                     ops[o].clr \in {"out", "both"})]_vars

\* The position of task t in the strand's queue (0: not queued).
QueuePos(t) ==
  IF InStrandQ(t) THEN CHOOSE i \in 1..Len(strandQ) : strandQ[i] = t ELSE 0

\* C39: the first background iteration of ProducerImpl, posted by the
\* constructor with the raw this, executes while the instance is alive for
\* every timing of ~Producer: the teardown task that carries the last
\* reference is behind it on the strand.
C39_FirstIterationFindsImplAlive ==
  (sys = "producer" /\ ~allowEarlyExit /\ loopOps = 0) =>
    /\ (InStrandQ(LoopTask) \/ LoopTask \in inSection) => ImplAlive
    /\ (InStrandQ(LoopTask) /\ InStrandQ(TeardownTask)) =>
         QueuePos(LoopTask) < QueuePos(TeardownTask)
    /\ InStrandQ(LoopTask) => TeardownTask \notin inSection

\* C39 witness: the Producer was destroyed before the strand ran anything;
\* the first iteration is running with the teardown task queued behind it.
C39_Witness ==
  /\ sys = "producer" /\ ~allowEarlyExit /\ ~aborted
  /\ wrapper = "destroyed" /\ refs = {T}
  /\ LoopTask \in inSection /\ loopOps = 0
  /\ InStrandQ(TeardownTask)

\* Every operation the caller started has called its handler and returned.
OperationsCompleted ==
  \A o \in Calls : ops[o].pc \in {"idle", "done"} /\ ~ops[o].inCall

BothRunsReturned == appRun = "returned" /\ prodRun = "returned"

\* C40: in the demo topology, once the caller's operations have completed
\* and the wrapper is destroyed, both run loops eventually return; when the
\* service's run loop has returned everything posted to it was executed and
\* no self-reference (of an operation, the background loop or the teardown
\* task) and no work guard is left.
C40_BothContextsTerminate ==
  /\ [](prodRun = "returned" =>
          /\ ServiceIdle
          /\ refs = {}
          /\ \A o \in Calls : ~ops[o].guard)
  /\ (OperationsCompleted /\ wrapper = "destroyed") ~> BothRunsReturned

====
